---- MODULE Spec2Model ----
(***************************************************************************)
(* BIT* (Batch Informed Trees): the planner core of                        *)
(* src/ompl/geometric/planners/bitstar/src/BITstar.cpp as a state machine. *)
(*                                                                         *)
(* BITstar.cpp is modelled from its code.  The Vertex class and the        *)
(* IntegratedQueue class are used by BITstar.cpp but their code is not     *)
(* part of the sources at hand; they are modelled from sections 3, 4.1 and *)
(* 4.4 of the specification (the Vertex... and Queue... definitions).      *)
(* The state space, the objective and the informed sampler are external:   *)
(* the state space is a lattice with the Chebyshev metric, the objective   *)
(* is the default path-length objective (heuristic = distance), and the    *)
(* sampler draws not-yet-used lattice points of the informed subset.       *)
(***************************************************************************)
EXTENDS Integers, Sequences, FiniteSets, TLC

VARIABLES
    pc,            \* where the planner is: "new", "idle", or a position inside solve
    setup_,        \* Planner::setup_
    pdef,          \* the problem definition handed to the planner
    ptc,           \* the planner termination condition of the running solve call
    conf,          \* the configuration options (useStrictQueueOrdering_, ...)
    vertices,      \* the Vertex objects: parent, children, cost, edge cost, failed children
    freeStateNN_,  \* the sample pool
    vertexNN_,     \* the tree index
    intQueue_,     \* the integrated queue
    nn,            \* r_, k_rgg_, k_ and the N they were computed from
    costs,         \* bestCost_, prunedCost_, minCost_, costSampled_
    hasSolution_,
    approximateSoln_,
    stopLoop,
    num,           \* the progress counters (numIterations_, ...)
    bestEdge,      \* the edge popped in the current iteration
    allocated,     \* whether sampler_, opt_ and intQueue_ are allocated
    result,        \* what the last solve call returned and published
    motionChecks,  \* the motion validator's log: the checkMotion calls under
                   \* failure tracking whose two states kept their partition
    popLog         \* the pops of the running batch: the edges popped whose source
                   \* was not rewired since, and the key of the last pop

vars == <<pc, setup_, pdef, ptc, conf, vertices, freeStateNN_, vertexNN_, intQueue_, nn,
          costs, hasSolution_, approximateSoln_, stopLoop, num, bestEdge, allocated, result,
          motionChecks, popLog>>

(***************************************************************************)
(* Bounds of the model.                                                    *)
(***************************************************************************)
\* Number of lattice points the sampler can return (besides start and goal).
NumCand == 5
\* Bound on numIterations_: no main-loop iteration starts beyond it.
MaxIter == 8
\* The same bound for the detour problem, whose rewiring takes three batches.
DetourMaxIter == 15
\* Largest value setSamplesPerBatch is called with.
MaxSamplesPerBatch == 2

(***************************************************************************)
(* Vertices.  A vertex is identified by a number; its state (position) is  *)
(* immutable and given by PosX/PosY.                                       *)
(***************************************************************************)
Start == 0
Goal == 1
NoVertex == -1
Cand == 2..(NumCand + 1)
Vtx == {Start, Goal} \cup Cand

\* infiniteCost() of the objective, std::numeric_limits<double>::infinity().
Infinity == 1000

Abs(x) == IF x < 0 THEN -x ELSE x
Max(a, b) == IF a < b THEN b ELSE a
Min(a, b) == IF a < b THEN a ELSE b

(***************************************************************************)
(* The problem: the planning domain is [0,6] x [0,3]; one obstacle blocks  *)
(* the straight motion between the start and candidate 3, and the lattice  *)
(* points of candidates 6 and 7 lie inside the obstacle.  pdef.goalAtStart *)
(* selects the start = goal problem.                                       *)
(***************************************************************************)
PosX == <<0, 6, 1, 3, 1, 0, 4, 3, 5>>
PosY == <<0, 0, 2, 0, 1, 3, 2, 1, 3>>
\* Lattice points inside the obstacle: isValid is false there.
InvalidStates == {6, 7}
\* Unordered pairs of vertices whose connecting motion crosses the obstacle.
BlockedMotions == {{Start, 3}}
\* The pairs a second obstacle blocks in the problems that have one
\* (pdef.secondObstacle): it shields the goal from candidate 3.
SecondObstacle == {{3, Goal}}
\* Lattice points inside that second obstacle.
SecondObstacleStates == {5}
\* The detour problem (pdef.detour): the same domain, no lattice point inside
\* an obstacle, and walls that leave start -> 2 -> 3 as the way to candidate
\* 3 and its child 4 until candidate 6 opens the shorter way start -> 6 -> 5
\* -> 3.  The motion between 4 and 5 is blocked, and so are those to the goal.
DetourX == <<0, 6, 2, 5, 4, 2, 1, 6, 0>>
DetourY == <<0, 0, 3, 0, 0, 0, 0, 3, 3>>
DetourBlockedMotions == {{Start, 5}, {6, 4}, {5, 2}, {5, 4}, {2, 4}, {4, Goal}, {3, Goal}}
\* Measure of the planning domain, si_->getSpaceMeasure().
SpaceMeasure == 18

\* The domain as lattice points, for the measure of the informed subset.
DomainX == 0..6
DomainY == 0..3

\* The state of a vertex: the goal's state is the one the problem names.
StateX(v) == IF pdef.detour THEN DetourX[v + 1]
             ELSE IF v = Goal /\ pdef.goalAtStart THEN PosX[Start + 1] ELSE PosX[v + 1]
StateY(v) == IF pdef.detour THEN DetourY[v + 1]
             ELSE IF v = Goal /\ pdef.goalAtStart THEN PosY[Start + 1] ELSE PosY[v + 1]

\* The Chebyshev metric on the lattice.
Chebyshev(x1, y1, x2, y2) == Max(Abs(x1 - x2), Abs(y1 - y2))

\* si_->distance(a, b)
Distance(a, b) == Chebyshev(StateX(a), StateY(a), StateX(b), StateY(b))

\* si_->isValid(state)
IsValid(v) ==
    \/ pdef.detour
    \/ /\ v \notin InvalidStates
       /\ pdef.secondObstacle => v \notin SecondObstacleStates

\* si_->checkMotion(a, b)
CheckMotion(a, b) ==
    IF pdef.detour THEN {a, b} \notin DetourBlockedMotions
    ELSE /\ {a, b} \notin BlockedMotions
         /\ pdef.secondObstacle => {a, b} \notin SecondObstacle

(***************************************************************************)
(* Cost algebra of the objective (path length).                            *)
(***************************************************************************)
CombineCosts(a, b) == IF a >= Infinity \/ b >= Infinity THEN Infinity ELSE a + b
CombineCosts3(a, b, c) == CombineCosts(CombineCosts(a, b), c)

\* opt_->motionCostHeuristic(a, b) of the path-length objective.
MotionCostHeuristic(a, b) == Distance(a, b)

isCostBetterThan(a, b) == a < b
isCostWorseThan(a, b) == isCostBetterThan(b, a)
isCostBetterThanOrEquivalentTo(a, b) == ~isCostBetterThan(b, a)
isCostWorseThanOrEquivalentTo(a, b) == ~isCostBetterThan(a, b)
isFinite(c) == isCostBetterThan(c, Infinity)

\* opt_->isSatisfied(c): the cost is better than the objective's threshold.
IsSatisfied(c, costThreshold) == isCostBetterThan(c, costThreshold)

costToComeHeuristic(v) == MotionCostHeuristic(Start, v)
edgeCostHeuristic(u, x) == MotionCostHeuristic(u, x)
costToGoHeuristic(v) == MotionCostHeuristic(v, Goal)
trueEdgeCost(u, x) == Distance(u, x)

lowerBoundHeuristicVertex(v) ==
    CombineCosts(costToComeHeuristic(v), costToGoHeuristic(v))

lowerBoundHeuristicEdge(u, x) ==
    CombineCosts3(costToComeHeuristic(u), edgeCostHeuristic(u, x),
                  costToGoHeuristic(x))

\* The heuristics that read the current tree: vs is the vertex table.
currentHeuristicVertex(vs, v) == CombineCosts(vs[v].cost, costToGoHeuristic(v))
currentHeuristicEdgeTarget(vs, u, x) ==
    CombineCosts(vs[u].cost, edgeCostHeuristic(u, x))
currentHeuristicEdge(vs, u, x) ==
    CombineCosts(currentHeuristicEdgeTarget(vs, u, x), costToGoHeuristic(x))

(***************************************************************************)
(* fractionalChange: a rational <<numerator, denominator>>; <<1, 0>> is    *)
(* +infinity and <<0, 0>> is NaN (0/0).                                    *)
(***************************************************************************)
fractionalChange(newCost, oldCost) ==
    IF ~isFinite(oldCost) THEN <<1, 0>>
    ELSE IF oldCost = 0 THEN (IF newCost = oldCost THEN <<0, 0>> ELSE <<1, 0>>)
    ELSE <<newCost - oldCost, oldCost>>

\* std::abs(f) > pct/100 for a rational f; a NaN compares false.
AbsExceedsPercent(f, pct) ==
    IF f[2] = 0 THEN f[1] # 0
    ELSE 100 * Abs(f[1]) > pct * Abs(f[2])

(***************************************************************************)
(* The informed sampler (external).  Its informed measure is the measure   *)
(* of the domain cut by the set of states with f_hat < bestCost.           *)
(***************************************************************************)
InformedSet(bestCost) == {v \in Cand : isCostBetterThan(lowerBoundHeuristicVertex(v), bestCost)}

\* The lattice around the domain: it holds every informed subset of a cost
\* below 11.
PlaneX == -2..8
PlaneY == -5..5

\* sampler_->getInformedMeasure(): the whole domain when the sampler has no
\* informed measure or the informed subset covers the domain.  A sampler
\* measures the informed subset inside the domain (pdef.measureInDomain) or
\* as a whole, and then reports no more than the measure of the domain.
InformedMeasure(bestCost) ==
    IF ~pdef.hasInformedMeasure \/ ~isFinite(bestCost) THEN SpaceMeasure
    ELSE LET region == IF pdef.measureInDomain THEN DomainX \X DomainY
                       ELSE PlaneX \X PlaneY
             inside == {p \in region :
                          Chebyshev(StateX(Start), StateY(Start), p[1], p[2])
                          + Chebyshev(p[1], p[2], StateX(Goal), StateY(Goal)) < bestCost}
         IN Min(SpaceMeasure,
                (SpaceMeasure * Cardinality(inside)) \div Cardinality(DomainX \X DomainY))

(***************************************************************************)
(* RGG terms.  Reals are fixed-point: natural logarithms in thousandths,   *)
(* the rewire factor in tenths, and r_ holds 1000 * r^2 (a state is within *)
(* r iff 1000 * distance^2 <= r_), for the state dimension 2.              *)
(***************************************************************************)
LnMilli == <<0, 693, 1099, 1386, 1609, 1792, 1946, 2079, 2197, 2303, 2398, 2485>>

\* 1000 * minimumRggR()^2 = 1000 * (eta * 2)^2 * (1 + 1/2) * measure / pi
minimumRggR(rewireFactor, measure) ==
    (rewireFactor * rewireFactor * 4 * 3 * measure * 5000) \div 3142

\* 1000 * r(N)^2 = 1000 * minimumRggR^2 * log(N) / N
r(N, rewireFactor, measure) ==
    (minimumRggR(rewireFactor, measure) * LnMilli[N]) \div (1000 * N)

\* 1000 * minimumRggK() = 1000 * eta * (e + e/2)
minimumRggK(rewireFactor) == (rewireFactor * 4077) \div 10

\* k(N) = ceil(k_rgg * log(N))
k(N, k_rgg) == (k_rgg * LnMilli[N] + 999999) \div 1000000

(***************************************************************************)
(* Vertex (specification sections 3 and 4.1).  vs is the table of vertex   *)
(* objects; a sample is a vertex without parent, with infinite cost.       *)
(***************************************************************************)
NewVertex == [parent |-> NoVertex, children |-> {}, cost |-> Infinity,
              edgeCost |-> Infinity, failed |-> {}]

VertexIsRoot(v) == v = Start
VertexHasParent(vs, v) == vs[v].parent # NoVertex
\* isConnected(): the vertex is the root or has a parent.
VertexIsConnected(vs, v) == VertexIsRoot(v) \/ VertexHasParent(vs, v)

\* The descendants of the members of S (S excluded), by the children sets.
RECURSIVE DescendantsOf(_, _, _)
DescendantsOf(vs, S, seen) ==
    LET next == (UNION {vs[v].children : v \in S}) \ seen
    IN IF next = {} THEN seen ELSE DescendantsOf(vs, next, seen \cup next)

VertexDescendants(vs, v) == DescendantsOf(vs, {v}, {})

\* The ancestors of v, by the parent links (bounded by the number of vertices).
RECURSIVE AncestorsUpTo(_, _, _)
AncestorsUpTo(vs, v, n) ==
    IF n = 0 \/ vs[v].parent = NoVertex THEN {}
    ELSE {vs[v].parent} \cup AncestorsUpTo(vs, vs[v].parent, n - 1)

VertexAncestors(vs, v) == AncestorsUpTo(vs, v, Cardinality(Vtx))

\* update_cost_descending(): own cost from the parent's current cost and the
\* cached edge cost, then the same for every child, depth-first.
RECURSIVE VertexUpdateCostAndDescendants(_, _)
RECURSIVE VertexUpdateChildren(_, _)
VertexUpdateCostAndDescendants(vs, v) ==
    LET own == IF VertexIsRoot(v) THEN 0
               ELSE IF ~VertexHasParent(vs, v) THEN Infinity
               ELSE CombineCosts(vs[vs[v].parent].cost, vs[v].edgeCost)
        vs1 == [vs EXCEPT ![v].cost = own]
    IN VertexUpdateChildren(vs1, vs1[v].children)

VertexUpdateChildren(vs, todo) ==
    IF todo = {} THEN vs
    ELSE LET c == CHOOSE x \in todo : TRUE
         IN VertexUpdateChildren(VertexUpdateCostAndDescendants(vs, c), todo \ {c})

VertexAddChild(vs, p, c, updateChildCosts) ==
    LET vs1 == [vs EXCEPT ![p].children = @ \cup {c}]
    IN IF updateChildCosts THEN VertexUpdateCostAndDescendants(vs1, c) ELSE vs1

VertexRemoveChild(vs, p, c, updateChildCosts) ==
    LET vs1 == [vs EXCEPT ![p].children = @ \ {c}]
    IN IF updateChildCosts THEN VertexUpdateCostAndDescendants(vs1, c) ELSE vs1

\* set_parent(p, edge_cost, cascade)
VertexAddParent(vs, c, p, edgeCost, updateChildCosts) ==
    LET vs1 == [vs EXCEPT ![c].parent = p, ![c].edgeCost = edgeCost]
    IN IF updateChildCosts THEN VertexUpdateCostAndDescendants(vs1, c) ELSE vs1

\* clear_parent(cascade); the failure memory is cleared when the vertex is rewired.
VertexRemoveParent(vs, c, updateChildCosts) ==
    LET vs1 == [vs EXCEPT ![c].parent = NoVertex, ![c].edgeCost = Infinity,
                          ![c].failed = {}]
    IN IF updateChildCosts THEN VertexUpdateCostAndDescendants(vs1, c) ELSE vs1

\* A variant of mark_failed_child that notes the failure at the target.
VertexMarkAsFailedChildAtTarget(vs, u, x) == [vs EXCEPT ![x].failed = @ \cup {u}]

\* mark_failed_child(v)
VertexMarkAsFailedChild(vs, u, x) == [vs EXCEPT ![u].failed = @ \cup {x}]

(***************************************************************************)
(* Nearest-neighbour structures (external): a set of vertices.             *)
(***************************************************************************)
NearestR(index, v, rr) == {x \in index : 1000 * Distance(v, x) * Distance(v, x) <= rr}

\* The kk members of the index nearest to v (ties by vertex number).
NearestK(index, v, kk) ==
    LET closer(y, x) == Distance(v, y) < Distance(v, x)
                        \/ (Distance(v, y) = Distance(v, x) /\ y < x)
    IN {x \in index : Cardinality({y \in index : closer(y, x)}) < kk}

(***************************************************************************)
(* The planner state the queue callbacks read and write, as one record st: *)
(*   conf, vs, free, tree, q, nn, costs, num.                              *)
(* The operators below take st and return the new st.                      *)
(***************************************************************************)

\* BITstar::updateNearestTerms
updateNearestTerms(st) ==
    LET N == Cardinality(st.tree) + Cardinality(st.free)
    IN [st EXCEPT !.nn = IF st.conf.useKNearest_
                         THEN [@ EXCEPT !.k_ = k(N, st.nn.k_rgg_), !.N = N]
                         ELSE [@ EXCEPT !.r_ = r(N, st.conf.rewireFactor_,
                                                 InformedMeasure(st.costs.bestCost_)),
                                        !.N = N]]

\* A variant of initializeNearestTerms that computes k_rgg_ and leaves r_ and
\* k_ for the first batch.
initializeNearestTermsLater(st) ==
    [st EXCEPT !.nn.k_rgg_ = minimumRggK(st.conf.rewireFactor_)]

\* BITstar::initializeNearestTerms
initializeNearestTerms(st) ==
    updateNearestTerms([st EXCEPT !.nn.k_rgg_ = minimumRggK(st.conf.rewireFactor_)])

\* BITstar::addSample (markNew touches only the expansion bookkeeping of the vertex)
addSample(st, v) == [st EXCEPT !.free = @ \cup {v}]

\* A variant of updateSamples that leaves r_ and k_ as they are.
updateSamplesKeepsNearestTerms(st, drawn) ==
    IF isCostBetterThan(st.costs.costSampled_, st.costs.bestCost_)
    THEN LET valid == {v \in drawn : IsValid(v)}
         IN [st EXCEPT !.num.numSamples_ = @ + st.conf.samplesPerBatch_,
                       !.num.numStateCollisionChecks_ = @ + st.conf.samplesPerBatch_,
                       !.vs = [v \in Vtx |-> IF v \in valid THEN NewVertex ELSE @[v]],
                       !.free = @ \cup valid,
                       !.costs.costSampled_ = Infinity]
    ELSE st

\* A variant of updateSamples that draws on every query.
updateSamplesOnEveryQuery(st, drawn) ==
    LET valid == {v \in drawn : IsValid(v)}
        st1 == [st EXCEPT !.num.numSamples_ = @ + st.conf.samplesPerBatch_,
                          !.num.numStateCollisionChecks_ = @ + st.conf.samplesPerBatch_,
                          !.vs = [v \in Vtx |-> IF v \in valid THEN NewVertex ELSE @[v]],
                          !.free = @ \cup valid,
                          !.costs.costSampled_ = Infinity]
    IN updateNearestTerms(st1)

\* BITstar::updateSamples; drawn are the states the sampler returns in this batch
updateSamples(st, drawn) ==
    IF isCostBetterThan(st.costs.costSampled_, st.costs.bestCost_)
    THEN LET valid == {v \in drawn : IsValid(v)}
             st1 == [st EXCEPT !.num.numSamples_ = @ + st.conf.samplesPerBatch_,
                               !.num.numStateCollisionChecks_ = @ + st.conf.samplesPerBatch_,
                               !.vs = [v \in Vtx |-> IF v \in valid THEN NewVertex ELSE @[v]],
                               !.free = @ \cup valid,
                               !.costs.costSampled_ = Infinity]
         IN updateNearestTerms(st1)
    ELSE st

\* BITstar::nearestSamples, after its call of updateSamples
nearestSamples(st, v) ==
    IF st.conf.useKNearest_ THEN NearestK(st.free, v, st.nn.k_)
    ELSE NearestR(st.free, v, st.nn.r_)

\* BITstar::nearestVertices
nearestVertices(st, v) ==
    IF st.conf.useKNearest_ THEN NearestK(st.tree, v, st.nn.k_)
    ELSE NearestR(st.tree, v, st.nn.r_)

(***************************************************************************)
(* IntegratedQueue (specification section 4.4).  The queue q is a record:  *)
(*   vertexQueue  the tree vertices awaiting expansion,                    *)
(*   edgeQueue    the queued edges, each with its cached sort key          *)
(*                <<k1, k2>> = <<currentHeuristicEdge, ...EdgeTarget>>,    *)
(*   costThreshold, unsorted (the outstanding unsorted marks),             *)
(*   useFailureTracking.                                                   *)
(***************************************************************************)
EmptyQueue == [vertexQueue |-> {}, edgeQueue |-> {}, costThreshold |-> Infinity,
               unsorted |-> {}, useFailureTracking |-> FALSE]

QueueEntry(vs, u, x) ==
    [src |-> u, tgt |-> x, k1 |-> currentHeuristicEdge(vs, u, x),
     k2 |-> currentHeuristicEdgeTarget(vs, u, x)]

\* Lexicographic order of the cached edge keys.
EdgeKeyBetter(a, b) == a.k1 < b.k1 \/ (a.k1 = b.k1 /\ a.k2 < b.k2)

\* A variant of QueueMinEdges that takes whatever edge is queued.
QueueMinEdgesUnordered(q) == q.edgeQueue

\* The edges that can be at the front of the edge queue.
QueueMinEdges(q) == {e \in q.edgeQueue : \A f \in q.edgeQueue : ~EdgeKeyBetter(f, e)}

\* The vertex at the front of the vertex queue (ties by vertex number).
QueueFrontVertex(vs, q) ==
    CHOOSE v \in q.vertexQueue :
        \A w \in q.vertexQueue :
            \/ currentHeuristicVertex(vs, v) < currentHeuristicVertex(vs, w)
            \/ (currentHeuristicVertex(vs, v) = currentHeuristicVertex(vs, w) /\ v <= w)

QueueHasEdge(q, u, x) == \E e \in q.edgeQueue : e.src = u /\ e.tgt = x

\* The four conditions under which expansion queues the edge (u, x).
QueueEdgeInsertCondition(st, u, x) ==
    /\ x \notin st.vs[u].failed
    /\ isCostBetterThan(lowerBoundHeuristicEdge(u, x), st.q.costThreshold)
    /\ x # u
    /\ ~QueueHasEdge(st.q, u, x)
    /\ x \in st.tree =>
          /\ st.vs[x].parent # u
          /\ isCostBetterThan(currentHeuristicEdgeTarget(st.vs, u, x), st.vs[x].cost)

\* Expansion of the tree vertex u: the neighbourhood is asked for (samples
\* first, which draws the batch's samples on the first query), the admitted
\* edges are queued and u leaves the vertex queue.
QueueExpandVertex(st, u, drawn) ==
    LET st1 == [updateSamples(st, drawn) EXCEPT !.num.numNearestNeighbours_ = @ + 2]
        nbrs == nearestSamples(st1, u) \cup nearestVertices(st1, u)
        new == {QueueEntry(st1.vs, u, x) : x \in {y \in nbrs : QueueEdgeInsertCondition(st1, u, y)}}
    IN [st1 EXCEPT !.q.edgeQueue = @ \cup new, !.q.vertexQueue = @ \ {u}]

\* Expansion goes on while the vertex queue is not empty and the best edge
\* does not beat the best vertex.
RECURSIVE QueueUpdateQueue(_, _)
QueueUpdateQueue(st, drawn) ==
    IF st.q.vertexQueue = {} THEN st
    ELSE LET v == QueueFrontVertex(st.vs, st.q)
             vkey == currentHeuristicVertex(st.vs, v)
         IN IF st.q.edgeQueue # {} /\ (\E e \in st.q.edgeQueue : e.k1 < vkey) THEN st
            ELSE QueueUpdateQueue(QueueExpandVertex(st, v, drawn), drawn)

\* is_empty(): after the expansions a peek needs, no edge is queued.
QueueIsEmpty(st) == st.q.edgeQueue = {}

QueueInsertVertex(q, v) == [q EXCEPT !.vertexQueue = @ \cup {v}]
QueueSetThreshold(q, c) == [q EXCEPT !.costThreshold = c]
QueueIsSorted(q) == q.unsorted = {}

\* reset(): both queues emptied, every tree vertex awaits expansion again.
\* A variant of QueueReset that empties the queues and marks no vertex for
\* expansion.
QueueResetWithoutMarks(q, tree) == [q EXCEPT !.edgeQueue = {}, !.vertexQueue = {}]

QueueReset(q, tree) == [q EXCEPT !.edgeQueue = {}, !.vertexQueue = tree]

\* finish(): both queues cleared.
QueueFinish(q) == [q EXCEPT !.edgeQueue = {}, !.vertexQueue = {}]

\* mark_vertex_unsorted(v): v and its subtree.
QueueMarkVertexUnsorted(q, vs, v) ==
    [q EXCEPT !.unsorted = @ \cup {v} \cup VertexDescendants(vs, v)]

\* prune_edges_to(x): the queued edges to x that can no longer rewire it.
QueuePruneEdgesTo(q, vs, x) ==
    [q EXCEPT !.edgeQueue =
        {e \in @ : ~(e.tgt = x /\ isCostWorseThanOrEquivalentTo(
                                     currentHeuristicEdgeTarget(vs, e.src, x), vs[x].cost))}]

\* samplePruneCondition: f_hat >= threshold
QueueSamplePruneCondition(q, v) ==
    isCostWorseThanOrEquivalentTo(lowerBoundHeuristicVertex(v), q.costThreshold)

\* The tree vertices `cut` and their subtrees leave the tree: those whose
\* f_hat is below the threshold become samples again, the others are
\* dropped.  Their queue entries go.  Returns the new st and the pair
\* <<vertices disconnected, states dropped>>.
QueueDisconnect(st, cut) ==
    LET gone == cut \cup DescendantsOf(st.vs, cut, {})
        recycled == {v \in gone : ~QueueSamplePruneCondition(st.q, v)}
        vs1 == [v \in Vtx |->
                  IF v \in gone THEN NewVertex
                  ELSE [st.vs[v] EXCEPT !.children = @ \ gone]]
    IN <<[st EXCEPT !.vs = vs1,
                    !.tree = @ \ gone,
                    !.free = @ \cup recycled,
                    !.q.vertexQueue = @ \ gone,
                    !.q.unsorted = @ \ gone,
                    !.q.edgeQueue = {e \in @ : e.src \notin gone /\ e.tgt \notin gone}],
         <<Cardinality(gone), Cardinality(gone \ recycled)>>>>

\* The condition under which a tree vertex is pruned: f_hat >= threshold
QueueVertexPruneCondition(q, v) ==
    isCostWorseThanOrEquivalentTo(lowerBoundHeuristicVertex(v), q.costThreshold)

\* A resort that sweeps the whole tree at the threshold when no vertex is
\* marked.
QueueResortSweepsWhenSorted(st) ==
    LET marked == IF QueueIsSorted(st.q) THEN st.tree ELSE st.q.unsorted \cap st.tree
        cut == {v \in marked : QueueVertexPruneCondition(st.q, v)}
        res == QueueDisconnect(st, cut)
        st1 == res[1]
        kept == marked \cap st1.tree
    IN <<[st1 EXCEPT !.q.edgeQueue =
                         {IF e.src \in kept THEN QueueEntry(st1.vs, e.src, e.tgt) ELSE e
                            : e \in @},
                     !.q.vertexQueue = @ \cup (kept \cap st.q.unsorted),
                     !.q.unsorted = {}],
         res[2]>>

\* resort(tree_index, sample_index): the marked vertices are pruned or get
\* their keys recomputed.
QueueResort(st) ==
    IF QueueIsSorted(st.q) THEN <<st, <<0, 0>>>>
    ELSE LET marked == st.q.unsorted \cap st.tree
             cut == {v \in marked : QueueVertexPruneCondition(st.q, v)}
             res == QueueDisconnect(st, cut)
             st1 == res[1]
             kept == marked \cap st1.tree
         IN <<[st1 EXCEPT !.q.edgeQueue =
                              {IF e.src \in kept THEN QueueEntry(st1.vs, e.src, e.tgt) ELSE e
                                 : e \in @},
                          !.q.vertexQueue = @ \cup kept,
                          !.q.unsorted = {}],
              res[2]>>

\* prune(tree_index, sample_index): the full sweep, the logic of resort over
\* every tree vertex and every sample.
QueuePrune(st) ==
    LET cut == {v \in st.tree : QueueVertexPruneCondition(st.q, v)}
        res == QueueDisconnect(st, cut)
        st1 == res[1]
        dropped == {v \in st1.free : QueueSamplePruneCondition(st1.q, v)}
    IN <<[st1 EXCEPT !.free = @ \ dropped,
                     !.q.edgeQueue = {e \in @ : e.tgt \notin dropped}],
         <<res[2][1], res[2][2] + Cardinality(dropped)>>>>

(***************************************************************************)
(* BITstar: the operations of the planner on the record st.                *)
(***************************************************************************)
Cur == [conf |-> conf, vs |-> vertices, free |-> freeStateNN_, tree |-> vertexNN_, q |-> intQueue_,
        nn |-> nn, costs |-> costs, num |-> num]

Commit(st) ==
    /\ vertices' = st.vs
    /\ freeStateNN_' = st.free
    /\ vertexNN_' = st.tree
    /\ intQueue_' = st.q
    /\ nn' = st.nn
    /\ costs' = st.costs
    /\ num' = st.num

\* A variant of addVertexThrows that accepts the root only.
addVertexThrowsUnlessRoot(st, v) == ~VertexIsRoot(v)

\* BITstar::addVertex throws when the vertex is neither connected nor the root.
addVertexThrows(st, v) == ~VertexHasParent(st.vs, v) /\ ~VertexIsRoot(v)

\* A variant of addVertex that does not queue the vertex for expansion.
addVertexWithoutQueueInsert(st, v, removeFromFree, updateExpansionQueue) ==
    IF addVertexThrows(st, v) THEN st
    ELSE [st EXCEPT !.free = IF removeFromFree THEN @ \ {v} ELSE @,
                    !.tree = @ \cup {v},
                    !.num.numVertices_ = @ + 1]

\* A variant of addVertex that leaves the vertex in the sample pool.
addVertexKeepsSample(st, v, removeFromFree, updateExpansionQueue) ==
    IF addVertexThrows(st, v) THEN st
    ELSE [st EXCEPT !.tree = @ \cup {v},
                    !.q = IF updateExpansionQueue THEN QueueInsertVertex(@, v) ELSE @,
                    !.num.numVertices_ = @ + 1]

\* BITstar::addVertex
addVertex(st, v, removeFromFree, updateExpansionQueue) ==
    IF addVertexThrows(st, v) THEN st
    ELSE [st EXCEPT !.free = IF removeFromFree THEN @ \ {v} ELSE @,
                    !.tree = @ \cup {v},
                    !.q = IF updateExpansionQueue THEN QueueInsertVertex(@, v) ELSE @,
                    !.num.numVertices_ = @ + 1]

\* A variant of replaceParent that leaves x among the children of its old parent.
replaceParentKeepsOldChild(st, u, x, edgeCost) ==
    LET vs2 == VertexRemoveParent(st.vs, x, FALSE)
        vs3 == VertexAddChild(vs2, u, x, FALSE)
        vs4 == VertexAddParent(vs3, x, u, edgeCost, TRUE)
    IN [st EXCEPT !.num.numRewirings_ = @ + 1,
                  !.vs = vs4,
                  !.q = QueueMarkVertexUnsorted(@, vs4, x)]

\* A variant of replaceParent that does not update the costs below x.
replaceParentWithoutCascade(st, u, x, edgeCost) ==
    LET vs1 == VertexRemoveChild(st.vs, st.vs[x].parent, x, FALSE)
        vs2 == VertexRemoveParent(vs1, x, FALSE)
        vs3 == VertexAddChild(vs2, u, x, FALSE)
        vs4 == [VertexAddParent(vs3, x, u, edgeCost, FALSE)
                  EXCEPT ![x].cost = CombineCosts(vs3[u].cost, edgeCost)]
    IN [st EXCEPT !.num.numRewirings_ = @ + 1,
                  !.vs = vs4,
                  !.q = QueueMarkVertexUnsorted(@, vs4, x)]

\* A variant of replaceParent that does not mark the subtree of x unsorted.
replaceParentWithoutUnsortedMark(st, u, x, edgeCost) ==
    LET vs1 == VertexRemoveChild(st.vs, st.vs[x].parent, x, FALSE)
        vs2 == VertexRemoveParent(vs1, x, FALSE)
        vs3 == VertexAddChild(vs2, u, x, FALSE)
        vs4 == VertexAddParent(vs3, x, u, edgeCost, TRUE)
    IN [st EXCEPT !.num.numRewirings_ = @ + 1,
                  !.vs = vs4]

\* BITstar::replaceParent
replaceParent(st, u, x, edgeCost) ==
    LET vs1 == VertexRemoveChild(st.vs, st.vs[x].parent, x, FALSE)
        vs2 == VertexRemoveParent(vs1, x, FALSE)
        vs3 == VertexAddChild(vs2, u, x, FALSE)
        vs4 == VertexAddParent(vs3, x, u, edgeCost, TRUE)
    IN [st EXCEPT !.num.numRewirings_ = @ + 1,
                  !.vs = vs4,
                  !.q = QueueMarkVertexUnsorted(@, vs4, x)]

\* BITstar::addEdge
addEdge(st, u, x, edgeCost, removeFromFree, updateExpansionQueue) ==
    IF VertexIsConnected(st.vs, x) THEN replaceParent(st, u, x, edgeCost)
    ELSE LET vs1 == VertexAddChild(st.vs, u, x, FALSE)
             vs2 == VertexAddParent(vs1, x, u, edgeCost, TRUE)
         IN addVertex([st EXCEPT !.vs = vs2], x, removeFromFree, updateExpansionQueue)

\* BITstar::dropSample
dropSample(st, v) ==
    [st EXCEPT !.num.numFreeStatesPruned_ = @ + 1, !.free = @ \ {v}]

\* BITstar::pruneSamples
pruneSamples(st) ==
    LET old == {v \in st.free : QueueSamplePruneCondition(st.q, v)}
    IN [st EXCEPT !.num.numFreeStatesPruned_ = @ + Cardinality(old), !.free = @ \ old]

\* The first test of BITstar::prune: enabled, a solution, the cost changed enough.
pruneWanted(st) ==
    /\ st.conf.usePruning_
    /\ hasSolution_
    /\ AbsExceedsPercent(fractionalChange(st.costs.bestCost_, st.costs.prunedCost_),
                         st.conf.pruneFraction_)

\* A variant of the second test that takes every prune to be worth the work.
pruneWorthwhileAlways(st) == TRUE

\* The second test: the informed subset is smaller than the domain, or unknown.
pruneWorthwhile(st) ==
    \/ pdef.hasInformedMeasure /\ InformedMeasure(st.costs.bestCost_) < SpaceMeasure
    \/ ~pdef.hasInformedMeasure

\* A variant of prune that prunes the samples but not the graph.
pruneSamplesOnly(st) ==
    IF pruneWanted(st) /\ pruneWorthwhile(st)
    THEN LET st1 == pruneSamples([st EXCEPT !.num.numPrunings_ = @ + 1])
         IN [st1 EXCEPT !.costs.prunedCost_ = st1.costs.bestCost_]
    ELSE st

\* A variant of prune that does not store the cost at which it pruned.
pruneWithoutPrunedCost(st) ==
    IF pruneWanted(st) /\ pruneWorthwhile(st)
    THEN LET st1 == pruneSamples([st EXCEPT !.num.numPrunings_ = @ + 1])
             res == QueuePrune(st1)
         IN [res[1] EXCEPT !.num.numVerticesDisconnected_ = @ + res[2][1],
                           !.num.numFreeStatesPruned_ = @ + res[2][2]]
    ELSE st

\* A variant of prune that does not count itself.
pruneWithoutCount(st) ==
    IF pruneWanted(st) /\ pruneWorthwhile(st)
    THEN LET st1 == pruneSamples(st)
             res == QueuePrune(st1)
         IN [res[1] EXCEPT !.num.numVerticesDisconnected_ = @ + res[2][1],
                           !.num.numFreeStatesPruned_ = @ + res[2][2],
                           !.costs.prunedCost_ = res[1].costs.bestCost_]
    ELSE st

\* BITstar::prune
prune(st) ==
    IF pruneWanted(st) /\ pruneWorthwhile(st)
    THEN LET st1 == pruneSamples([st EXCEPT !.num.numPrunings_ = @ + 1])
             res == QueuePrune(st1)
         IN [res[1] EXCEPT !.num.numVerticesDisconnected_ = @ + res[2][1],
                           !.num.numFreeStatesPruned_ = @ + res[2][2],
                           !.costs.prunedCost_ = res[1].costs.bestCost_]
    ELSE st

\* BITstar::resort
resort(st) ==
    LET res == QueueResort(st)
    IN [res[1] EXCEPT !.num.numVerticesDisconnected_ = @ + res[2][1],
                      !.num.numFreeStatesPruned_ = @ + res[2][2]]

\* A variant of newBatch that keeps the queues as they are.
newBatchWithoutReset(st) ==
    LET st1 == [st EXCEPT !.num.numBatches_ = @ + 1,
                          !.costs.costSampled_ = st.costs.minCost_]
    IN prune(st1)

\* BITstar::newBatch
newBatch(st) ==
    LET st1 == [st EXCEPT !.num.numBatches_ = @ + 1,
                          !.costs.costSampled_ = st.costs.minCost_,
                          !.q = QueueReset(@, st.tree)]
    IN prune(st1)

\* BITstar::publishSolution: the parent chain of the goal, reversed.
RECURSIVE ReverseChain(_, _, _)
ReverseChain(vs, v, n) ==
    IF v = NoVertex \/ n = 0 THEN <<>>
    ELSE Append(ReverseChain(vs, vs[v].parent, n - 1), v)

\* A variant of publishSolution that appends the chain as collected, from the goal.
RECURSIVE ForwardChain(_, _, _)
ForwardChain(vs, v, n) ==
    IF v = NoVertex \/ n = 0 THEN <<>>
    ELSE <<v>> \o ForwardChain(vs, vs[v].parent, n - 1)

publishSolutionUnreversed(vs) == ForwardChain(vs, Goal, Cardinality(Vtx) + 1)

publishSolution(vs) == ReverseChain(vs, Goal, Cardinality(Vtx) + 1)

(***************************************************************************)
(* The state after construction (BITstar::BITstar).                        *)
(***************************************************************************)
NoProblem == [defined |-> FALSE, startCount |-> 0, goalAtStart |-> FALSE,
              costThreshold |-> 0, hasInformedMeasure |-> FALSE, measureInDomain |-> TRUE,
              secondObstacle |-> FALSE, detour |-> FALSE]

\* The plain problem: one start, a goal away from it, an informed measure.
PlainProblem ==
    [defined |-> TRUE, startCount |-> 1, goalAtStart |-> FALSE, costThreshold |-> 0,
     hasInformedMeasure |-> TRUE, measureInDomain |-> TRUE, secondObstacle |-> FALSE,
     detour |-> FALSE]

\* The problems a caller can hand to the planner.
Problems ==
    {PlainProblem,
     [defined |-> TRUE, startCount |-> 1, goalAtStart |-> FALSE, costThreshold |-> 0,
      hasInformedMeasure |-> FALSE, measureInDomain |-> TRUE, secondObstacle |-> FALSE, detour |-> FALSE],
     [defined |-> TRUE, startCount |-> 1, goalAtStart |-> FALSE, costThreshold |-> 8,
      hasInformedMeasure |-> TRUE, measureInDomain |-> FALSE, secondObstacle |-> FALSE, detour |-> FALSE],
     [defined |-> TRUE, startCount |-> 1, goalAtStart |-> TRUE, costThreshold |-> 0,
      hasInformedMeasure |-> TRUE, measureInDomain |-> TRUE, secondObstacle |-> FALSE, detour |-> FALSE],
     [defined |-> TRUE, startCount |-> 2, goalAtStart |-> FALSE, costThreshold |-> 0,
      hasInformedMeasure |-> TRUE, measureInDomain |-> TRUE, secondObstacle |-> FALSE, detour |-> FALSE],
     [defined |-> TRUE, startCount |-> 1, goalAtStart |-> FALSE, costThreshold |-> 0,
      hasInformedMeasure |-> TRUE, measureInDomain |-> TRUE, secondObstacle |-> TRUE, detour |-> FALSE]}

\* The detour problem.
DetourProblem ==
    [defined |-> TRUE, startCount |-> 1, goalAtStart |-> FALSE, costThreshold |-> 0,
     hasInformedMeasure |-> TRUE, measureInDomain |-> TRUE, secondObstacle |-> FALSE,
     detour |-> TRUE]

\* The defaults of the constructor; rewireFactor_ in tenths, pruneFraction_ in percent.
DefaultConf ==
    [useStrictQueueOrdering_ |-> FALSE, rewireFactor_ |-> 11, samplesPerBatch_ |-> 100,
     useFailureTracking_ |-> FALSE, useKNearest_ |-> FALSE, usePruning_ |-> TRUE,
     pruneFraction_ |-> 1, stopOnSolnChange_ |-> FALSE]

ZeroCounters ==
    [numIterations_ |-> 0, numBatches_ |-> 0, numPrunings_ |-> 0, numSamples_ |-> 0,
     numVertices_ |-> 0, numFreeStatesPruned_ |-> 0, numVerticesDisconnected_ |-> 0,
     numRewirings_ |-> 0, numStateCollisionChecks_ |-> 0, numEdgeCollisionChecks_ |-> 0,
     numNearestNeighbours_ |-> 0]

\* The log of pops: no edge, no key.
NoKey == <<>>
EmptyPopLog == [edges |-> {}, key |-> NoKey]

NoEdge == <<NoVertex, NoVertex>>
NoResult == [returned |-> FALSE, solutionFound |-> FALSE, approximate |-> FALSE,
             path |-> <<>>, threw |-> FALSE, error |-> FALSE, call |-> "none"]

Init ==
    /\ pc = "new"
    /\ setup_ = FALSE
    /\ pdef = NoProblem
    /\ ptc = FALSE
    /\ conf = DefaultConf
    /\ vertices = [v \in Vtx |-> NewVertex]
    /\ freeStateNN_ = {}
    /\ vertexNN_ = {}
    /\ intQueue_ = EmptyQueue
    /\ nn = [r_ |-> 0, k_rgg_ |-> 0, k_ |-> 0, N |-> 0]
    /\ costs = [bestCost_ |-> Infinity, prunedCost_ |-> Infinity, minCost_ |-> 0,
                costSampled_ |-> 0]
    /\ hasSolution_ = FALSE
    /\ approximateSoln_ = FALSE
    /\ stopLoop = FALSE
    /\ num = ZeroCounters
    /\ bestEdge = NoEdge
    /\ allocated = FALSE
    /\ result = NoResult
    /\ motionChecks = {}
    /\ popLog = EmptyPopLog

(***************************************************************************)
(* Configuration.  The options are set before the planner is set up.       *)
(***************************************************************************)
\* The configurations a caller reaches with one setter call: the defaults
\* with at most one option moved away from them.
OneOptionChanged(c) ==
    \E f \in DOMAIN DefaultConf : \A g \in DOMAIN DefaultConf \ {f} : c[g] = DefaultConf[g]

\* The calls explored: a caller moves an option away from its default on the
\* plain problem, hands over the other problems with the defaults, has the
\* problem with the second obstacle solved under strict queue ordering and
\* under failure tracking as well, and the detour problem under failure
\* tracking only.
Explored(p, c) ==
    /\ OneOptionChanged(c)
    /\ \/ c = DefaultConf /\ ~p.detour
       \/ p \in {NoProblem, PlainProblem}
       \/ p.secondObstacle /\ (c.useStrictQueueOrdering_ \/ c.useFailureTracking_)
       \/ p.detour /\ c.useFailureTracking_

Configurable == pc = "new"

planVars == <<vertices, freeStateNN_, vertexNN_, costs, hasSolution_, approximateSoln_,
              stopLoop, num, bestEdge, result, motionChecks, popLog>>

SetProblemDefinition ==
    /\ pc = "new"
    /\ ~pdef.defined
    /\ \E p \in Problems : Explored(p, conf) /\ pdef' = p
    /\ UNCHANGED <<pc, setup_, ptc, conf, intQueue_, nn, allocated>>
    /\ UNCHANGED planVars

\* The caller hands over the detour problem.
SetDetourProblem ==
    /\ pc = "new"
    /\ ~pdef.defined
    /\ Explored(DetourProblem, conf)
    /\ pdef' = DetourProblem
    /\ UNCHANGED <<pc, setup_, ptc, conf, intQueue_, nn, allocated>>
    /\ UNCHANGED planVars

\* The bound on numIterations_ of the problem at hand.
IterationBound == IF pdef.detour THEN DetourMaxIter ELSE MaxIter

\* A setter that only stores its argument.
StoreOption(field, value) ==
    /\ Configurable
    /\ conf' = [conf EXCEPT ![field] = value]
    /\ Explored(pdef, conf')
    /\ conf' # conf

setStrictQueueOrdering ==
    /\ \E beStrict \in BOOLEAN : StoreOption("useStrictQueueOrdering_", beStrict)
    /\ UNCHANGED <<pc, setup_, pdef, ptc, intQueue_, nn, allocated>>
    /\ UNCHANGED planVars

setSamplesPerBatch ==
    /\ \E n \in (1..MaxSamplesPerBatch) \cup {DefaultConf.samplesPerBatch_} :
          StoreOption("samplesPerBatch_", n)
    /\ UNCHANGED <<pc, setup_, pdef, ptc, intQueue_, nn, allocated>>
    /\ UNCHANGED planVars

setPruning ==
    /\ \E b \in BOOLEAN : StoreOption("usePruning_", b)
    /\ UNCHANGED <<pc, setup_, pdef, ptc, intQueue_, nn, allocated>>
    /\ UNCHANGED planVars

setStopOnSolnImprovement ==
    /\ \E b \in BOOLEAN : StoreOption("stopOnSolnChange_", b)
    /\ UNCHANGED <<pc, setup_, pdef, ptc, intQueue_, nn, allocated>>
    /\ UNCHANGED planVars

\* setUseFailureTracking also configures the queue when it is constructed.
setUseFailureTracking ==
    /\ \E b \in BOOLEAN :
          /\ StoreOption("useFailureTracking_", b)
          /\ intQueue_' = IF allocated THEN [intQueue_ EXCEPT !.useFailureTracking = b]
                          ELSE intQueue_
    /\ UNCHANGED <<pc, setup_, pdef, ptc, nn, allocated>>
    /\ UNCHANGED planVars

\* setRewireFactor and setKNearest reinitialize the RGG terms of a set-up planner.
setRewireFactor ==
    /\ \E f \in {11, 20} : StoreOption("rewireFactor_", f)
    /\ nn' = IF setup_ THEN initializeNearestTerms([Cur EXCEPT !.conf = conf']).nn ELSE nn
    /\ UNCHANGED <<pc, setup_, pdef, ptc, intQueue_, allocated>>
    /\ UNCHANGED planVars

setKNearest ==
    /\ \E b \in BOOLEAN : StoreOption("useKNearest_", b)
    /\ nn' = IF setup_ THEN initializeNearestTerms([Cur EXCEPT !.conf = conf']).nn ELSE nn
    /\ UNCHANGED <<pc, setup_, pdef, ptc, intQueue_, allocated>>
    /\ UNCHANGED planVars

\* What the caller sees of a call other than solve: the exception it threw
\* or the error it logged.
Outcome(call, threw, error) ==
    [result EXCEPT !.call = call, !.threw = threw, !.error = error]

\* setPruneThresholdFraction throws outside [0, 1] and stores nothing then.
PruneFractionArgs == {-5, 0, 1, 50, 101}
\* A variant of setPruneThresholdFractionThrows that tests the lower end only.
setPruneThresholdFractionThrowsBelowZero(f) == f < 0
setPruneThresholdFractionThrows(f) == f < 0 \/ f > 100

setPruneThresholdFraction ==
    /\ Configurable
    /\ \E f \in PruneFractionArgs :
          IF setPruneThresholdFractionThrows(f)
          THEN /\ conf' = conf
               /\ result' = Outcome("setPruneThresholdFraction", TRUE, FALSE)
          ELSE /\ conf' = [conf EXCEPT !.pruneFraction_ = f]
               /\ Explored(pdef, conf')
               /\ result' = Outcome("setPruneThresholdFraction", FALSE, FALSE)
    /\ <<conf', result'>> # <<conf, result>>
    /\ UNCHANGED <<pc, setup_, pdef, ptc, intQueue_, nn, allocated, vertices,
                   freeStateNN_, vertexNN_, costs, hasSolution_, approximateSoln_,
                   stopLoop, num, bestEdge, motionChecks, popLog>>

(***************************************************************************)
(* BITstar::setup and BITstar::clear                                       *)
(***************************************************************************)
\* A variant of setupFails that tests the problem definition only.
setupFailsWithoutStartCount == ~pdef.defined

\* The sanity checks of setup: a problem definition with exactly one start.
setupFails == ~pdef.defined \/ pdef.startCount # 1

setup ==
    /\ pc = "new"
    /\ IF setupFails
       THEN /\ setup_' = FALSE
            /\ result' = Outcome("setup", FALSE, TRUE)
            /\ UNCHANGED <<pc, vertices, freeStateNN_, vertexNN_, intQueue_, nn, costs,
                           num, allocated>>
       ELSE LET vs0 == [vertices EXCEPT ![Start] = [NewVertex EXCEPT !.cost = 0],
                                        ![Goal] = NewVertex]
                q0 == [EmptyQueue EXCEPT !.useFailureTracking = conf.useFailureTracking_]
                c0 == [bestCost_ |-> Infinity, prunedCost_ |-> Infinity,
                       minCost_ |-> costToComeHeuristic(Goal), costSampled_ |-> Infinity]
                st0 == [Cur EXCEPT !.vs = vs0, !.q = q0, !.costs = c0]
                st1 == addSample(st0, Goal)
                st2 == addVertex(st1, Start, FALSE, TRUE)
            IN /\ Commit(initializeNearestTerms(st2))
               /\ setup_' = TRUE
               /\ allocated' = TRUE
               /\ pc' = "idle"
               /\ result' = Outcome("setup", FALSE, FALSE)
    /\ UNCHANGED <<pdef, ptc, conf, hasSolution_, approximateSoln_, stopLoop, bestEdge,
                   motionChecks, popLog>>

\* A variant of the sampler test of the seed accessors that always passes.
samplerAllocatedAlways == TRUE

(***************************************************************************)
(* getRngLocalSeed and setRngLocalSeed: they throw without a sampler and   *)
(* reach only the sampler otherwise.  They are called before a solve.      *)
(***************************************************************************)
samplerAllocated == allocated

SeedCallable == pc = "new" \/ (pc = "idle" /\ ~result.returned)

getRngLocalSeed ==
    /\ SeedCallable
    /\ result' = Outcome("getRngLocalSeed", ~samplerAllocated, FALSE)
    /\ UNCHANGED <<pc, setup_, pdef, ptc, conf, vertices, freeStateNN_, vertexNN_,
                   intQueue_, nn, costs, hasSolution_, approximateSoln_, stopLoop, num,
                   bestEdge, allocated, motionChecks, popLog>>

setRngLocalSeed ==
    /\ SeedCallable
    /\ result' = Outcome("setRngLocalSeed", ~samplerAllocated, FALSE)
    /\ UNCHANGED <<pc, setup_, pdef, ptc, conf, vertices, freeStateNN_, vertexNN_,
                   intQueue_, nn, costs, hasSolution_, approximateSoln_, stopLoop, num,
                   bestEdge, allocated, motionChecks, popLog>>

\* A variant of clear that does not reset hasSolution_.
clearKeepsSolutionFlag ==
    /\ pc = "idle"
    /\ vertices' = [v \in Vtx |-> NewVertex]
    /\ freeStateNN_' = {}
    /\ vertexNN_' = {}
    /\ intQueue_' = EmptyQueue
    /\ nn' = [r_ |-> 0, k_rgg_ |-> 0, k_ |-> 0, N |-> 0]
    /\ costs' = [bestCost_ |-> Infinity, prunedCost_ |-> Infinity, minCost_ |-> 0,
                 costSampled_ |-> 0]
    /\ approximateSoln_' = FALSE
    /\ num' = ZeroCounters
    /\ setup_' = FALSE
    /\ allocated' = FALSE
    /\ pc' = "new"
    /\ bestEdge' = NoEdge
    /\ result' = NoResult
    /\ motionChecks' = {}
    /\ popLog' = EmptyPopLog
    /\ UNCHANGED <<pdef, ptc, conf, stopLoop, hasSolution_>>

clear ==
    /\ pc = "idle"
    /\ vertices' = [v \in Vtx |-> NewVertex]
    /\ freeStateNN_' = {}
    /\ vertexNN_' = {}
    /\ intQueue_' = EmptyQueue
    /\ nn' = [r_ |-> 0, k_rgg_ |-> 0, k_ |-> 0, N |-> 0]
    /\ costs' = [bestCost_ |-> Infinity, prunedCost_ |-> Infinity, minCost_ |-> 0,
                 costSampled_ |-> 0]
    /\ hasSolution_' = FALSE
    /\ approximateSoln_' = FALSE
    /\ num' = ZeroCounters
    /\ setup_' = FALSE
    /\ allocated' = FALSE
    /\ pc' = "new"
    /\ bestEdge' = NoEdge
    /\ result' = NoResult
    /\ motionChecks' = {}
    /\ popLog' = EmptyPopLog
    /\ UNCHANGED <<pdef, ptc, conf, stopLoop>>

(***************************************************************************)
(* BITstar::solve, one action per position of the main loop:               *)
(*   "loop"  the while condition,                                          *)
(*   "batch" after the strict resort, at the test of the empty queue,      *)
(*   "pop"   at popFrontEdge,                                              *)
(*   "edge"  with the popped edge at the gates.                            *)
(***************************************************************************)
InSolve == pc \in {"loop", "batch", "pop", "edge"}

(***************************************************************************)
(* The log of the motion validator.  An entry is a call of checkMotion for *)
(* the ordered pair (src, tgt): whether the motion was found blocked, the  *)
(* batch it was made in, and whether src was rewired since.  Calls are     *)
(* logged while failure tracking is on, and an entry is kept for as long   *)
(* as src and tgt each stay in the partition (tree or pool) they are in.   *)
(***************************************************************************)
SamePartition(v) ==
    /\ v \in vertexNN_ <=> v \in vertexNN_'
    /\ v \in freeStateNN_ <=> v \in freeStateNN_'

KeptChecks(log) == {e \in log : SamePartition(e.src) /\ SamePartition(e.tgt)}

solveBegin ==
    /\ pc = "idle"
    /\ setup_
    /\ pc' = "loop"
    /\ ptc' = FALSE
    /\ stopLoop' = FALSE
    /\ result' = NoResult
    /\ UNCHANGED <<setup_, pdef, conf, vertices, freeStateNN_, vertexNN_, intQueue_, nn,
                   costs, hasSolution_, approximateSoln_, num, bestEdge, allocated,
                   motionChecks, popLog>>

\* The termination condition turns true at any moment of a solve call; the
\* calls explored with a cancellation are those on the plain problem with
\* the default options.
terminationFires ==
    /\ InSolve
    /\ pdef = PlainProblem
    /\ conf = DefaultConf
    /\ ~ptc
    /\ ptc' = TRUE
    /\ UNCHANGED <<pc, setup_, pdef, conf, vertices, freeStateNN_, vertexNN_, intQueue_,
                   nn, costs, hasSolution_, approximateSoln_, stopLoop, num, bestEdge,
                   allocated, result, motionChecks, popLog>>

\* A variant of the while condition without the test of the termination
\* condition.
loopConditionWithoutPtc ==
    /\ ~IsSatisfied(costs.bestCost_, pdef.costThreshold)
    /\ isCostBetterThan(costs.minCost_, costs.bestCost_)
    /\ ~stopLoop

\* A variant of the while condition without the test of stopLoop.
loopConditionWithoutStopLoop ==
    /\ ~IsSatisfied(costs.bestCost_, pdef.costThreshold)
    /\ ~ptc
    /\ isCostBetterThan(costs.minCost_, costs.bestCost_)

\* A variant of the while condition without the test of minCost_.
loopConditionWithoutMinCost ==
    /\ ~IsSatisfied(costs.bestCost_, pdef.costThreshold)
    /\ ~ptc
    /\ ~stopLoop

\* The condition of the while loop.
loopCondition ==
    /\ ~IsSatisfied(costs.bestCost_, pdef.costThreshold)
    /\ ~ptc
    /\ isCostBetterThan(costs.minCost_, costs.bestCost_)
    /\ ~stopLoop

\* A variant of iterationBegin that starts the iteration without the resort
\* of strict queue ordering.
iterationBeginWithoutResort ==
    /\ pc = "loop"
    /\ loopCondition
    /\ num.numIterations_ < IterationBound
    /\ Commit([Cur EXCEPT !.num.numIterations_ = @ + 1])
    /\ pc' = "batch"
    /\ bestEdge' = NoEdge
    /\ motionChecks' = KeptChecks(motionChecks)
    /\ popLog' = popLog
    /\ UNCHANGED <<setup_, pdef, ptc, conf, hasSolution_, approximateSoln_, stopLoop,
                   allocated, result>>

\* The head of an iteration: the counter, and the resort of strict ordering.
iterationBegin ==
    /\ pc = "loop"
    /\ loopCondition
    /\ num.numIterations_ < IterationBound
    /\ LET st1 == [Cur EXCEPT !.num.numIterations_ = @ + 1]
       IN Commit(IF conf.useStrictQueueOrdering_ THEN resort(st1) ELSE st1)
    /\ pc' = "batch"
    /\ bestEdge' = NoEdge
    /\ motionChecks' = KeptChecks(motionChecks)
    /\ popLog' = popLog
    /\ UNCHANGED <<setup_, pdef, ptc, conf, hasSolution_, approximateSoln_, stopLoop,
                   allocated, result>>

\* The loop is left: the solution is published and the status returned.
solveReturn ==
    /\ pc = "loop"
    /\ ~loopCondition
    /\ result' = [returned |-> TRUE, solutionFound |-> hasSolution_,
                  approximate |-> approximateSoln_,
                  path |-> IF hasSolution_ THEN publishSolution(vertices) ELSE <<>>,
                  threw |-> FALSE, error |-> FALSE, call |-> "solve"]
    /\ pc' = "idle"
    /\ UNCHANGED <<setup_, pdef, ptc, conf, vertices, freeStateNN_, vertexNN_, intQueue_,
                   nn, costs, hasSolution_, approximateSoln_, stopLoop, num, bestEdge,
                   allocated, motionChecks, popLog>>

\* The states the sampler can return in one batch: unused lattice points of
\* the informed subset, at most samplesPerBatch_ of them.
Draws(st) ==
    IF isCostBetterThan(st.costs.costSampled_, st.costs.bestCost_)
    THEN {d \in SUBSET (InformedSet(st.costs.bestCost_) \ (st.free \cup st.tree)) :
            Cardinality(d) <= st.conf.samplesPerBatch_}
    ELSE {{}}

\* The log after the pop of e: the edge is noted, and its key unless
\* unsorted marks are outstanding.
LoggedPop(st, e) ==
    [edges |-> popLog.edges \cup {<<e.src, e.tgt>>},
     key |-> IF QueueIsSorted(st.q) THEN <<e.k1, e.k2>> ELSE NoKey]

\* if (intQueue_->isEmpty()) newBatch();
batchTest ==
    /\ pc = "batch"
    /\ \E drawn \in Draws(Cur) :
          LET st1 == QueueUpdateQueue(Cur, drawn)
          IN /\ Commit(IF QueueIsEmpty(st1) THEN newBatch(st1) ELSE st1)
             /\ popLog' = IF QueueIsEmpty(st1) THEN EmptyPopLog ELSE popLog
    /\ pc' = "pop"
    /\ motionChecks' = KeptChecks(motionChecks)
    /\ UNCHANGED <<setup_, pdef, ptc, conf, hasSolution_, approximateSoln_, stopLoop,
                   bestEdge, allocated, result>>

\* A variant of popFrontEdge that reads the best edge and leaves it in the
\* queue.
popFrontEdgeKeepsEdge ==
    /\ pc = "pop"
    /\ \E drawn \in Draws(Cur) :
          LET st1 == QueueUpdateQueue(Cur, drawn)
          IN IF QueueIsEmpty(st1)
             THEN /\ Commit(st1)
                  /\ pc' = "abort"
                  /\ bestEdge' = NoEdge
                  /\ popLog' = popLog
             ELSE \E e \in QueueMinEdges(st1.q) :
                     /\ Commit(st1)
                     /\ pc' = "edge"
                     /\ bestEdge' = <<e.src, e.tgt>>
                     /\ popLog' = LoggedPop(st1, e)
    /\ motionChecks' = KeptChecks(motionChecks)
    /\ UNCHANGED <<setup_, pdef, ptc, conf, hasSolution_, approximateSoln_, stopLoop,
                   allocated, result>>

\* intQueue_->popFrontEdge(bestEdge): after the expansions, the best edge
\* leaves the queue; a pop of an empty queue ends the planner.
popFrontEdge ==
    /\ pc = "pop"
    /\ \E drawn \in Draws(Cur) :
          LET st1 == QueueUpdateQueue(Cur, drawn)
          IN IF QueueIsEmpty(st1)
             THEN /\ Commit(st1)
                  /\ pc' = "abort"
                  /\ bestEdge' = NoEdge
                  /\ popLog' = popLog
             ELSE \E e \in QueueMinEdges(st1.q) :
                     /\ Commit([st1 EXCEPT !.q.edgeQueue = @ \ {e}])
                     /\ pc' = "edge"
                     /\ bestEdge' = <<e.src, e.tgt>>
                     /\ popLog' = LoggedPop(st1, e)
    /\ motionChecks' = KeptChecks(motionChecks)
    /\ UNCHANGED <<setup_, pdef, ptc, conf, hasSolution_, approximateSoln_, stopLoop,
                   allocated, result>>

(***************************************************************************)
(* The body of the iteration after the pop (BITstar::solve).               *)
(***************************************************************************)
\* g_t(v) + c_hat(v,x) + h_hat(x) < g_t(x_g)
gateA(st, u, x) ==
    isCostBetterThan(CombineCosts3(st.vs[u].cost, edgeCostHeuristic(u, x),
                                   costToGoHeuristic(x)),
                     st.vs[Goal].cost)

\* g_hat(v) + c(v,x) + h_hat(x) < g_t(x_g)
gateB(st, u, x) ==
    isCostBetterThan(CombineCosts3(costToComeHeuristic(u), trueEdgeCost(u, x),
                                   costToGoHeuristic(x)),
                     st.vs[Goal].cost)

\* BITstar::checkEdge
checkEdge(u, x) == CheckMotion(u, x)

\* g_t(v) + c(v,x) < g_t(x)
improvesGraph(st, u, x) ==
    isCostBetterThan(CombineCosts(st.vs[u].cost, trueEdgeCost(u, x)), st.vs[x].cost)

\* A variant of solutionImproved that tests for a changed cost, not a better one.
solutionImprovedOnChange(st) == st.vs[Goal].cost # st.costs.bestCost_

\* The test for an improved solution after an edge was added.
solutionImproved(st) == isCostBetterThan(st.vs[Goal].cost, st.costs.bestCost_)

\* The edge passed both gates and the collision check and improves the graph.
edgeAdded(st, u, x) ==
    gateA(st, u, x) /\ gateB(st, u, x) /\ checkEdge(u, x) /\ improvesGraph(st, u, x)

\* A variant of processedEdge that leaves the queued edges into x alone.
processedEdgeWithoutPruneEdgesTo(st, u, x) ==
    IF gateA(st, u, x)
    THEN IF gateB(st, u, x)
         THEN LET st1 == [st EXCEPT !.num.numEdgeCollisionChecks_ = @ + 1]
              IN IF checkEdge(u, x)
                 THEN IF improvesGraph(st1, u, x)
                      THEN LET st2 == addEdge(st1, u, x, trueEdgeCost(u, x), TRUE, TRUE)
                           IN IF solutionImproved(st2)
                              THEN [st2 EXCEPT
                                      !.costs.bestCost_ = st2.vs[Goal].cost,
                                      !.q = QueueSetThreshold(@, st2.vs[Goal].cost)]
                              ELSE st2
                      ELSE st1
                 ELSE IF st.conf.useFailureTracking_
                      THEN [st1 EXCEPT !.vs = VertexMarkAsFailedChild(@, u, x)]
                      ELSE st1
         ELSE IF st.conf.useFailureTracking_
              THEN [st EXCEPT !.vs = VertexMarkAsFailedChild(@, u, x)]
              ELSE st
    ELSE IF ~QueueIsSorted(st.q) THEN resort(st)
    ELSE [st EXCEPT !.q = QueueFinish(@)]

\* A variant of processedEdge that records every edge in collision as a
\* failed child, whether failure tracking is on or not.
processedEdgeAlwaysRecordsFailure(st, u, x) ==
    IF gateA(st, u, x)
    THEN IF gateB(st, u, x)
         THEN LET st1 == [st EXCEPT !.num.numEdgeCollisionChecks_ = @ + 1]
              IN IF checkEdge(u, x)
                 THEN IF improvesGraph(st1, u, x)
                      THEN LET st2 == addEdge(st1, u, x, trueEdgeCost(u, x), TRUE, TRUE)
                               st3 == IF solutionImproved(st2)
                                      THEN [st2 EXCEPT
                                              !.costs.bestCost_ = st2.vs[Goal].cost,
                                              !.q = QueueSetThreshold(@, st2.vs[Goal].cost)]
                                      ELSE st2
                           IN [st3 EXCEPT !.q = QueuePruneEdgesTo(@, st3.vs, x)]
                      ELSE st1
                 ELSE [st1 EXCEPT !.vs = VertexMarkAsFailedChild(@, u, x)]
         ELSE IF st.conf.useFailureTracking_
              THEN [st EXCEPT !.vs = VertexMarkAsFailedChild(@, u, x)]
              ELSE st
    ELSE IF ~QueueIsSorted(st.q) THEN resort(st)
    ELSE [st EXCEPT !.q = QueueFinish(@)]

\* A variant of processedEdge that drops an edge rejected by gate A and
\* leaves the queue as it is.
processedEdgeWithoutFinish(st, u, x) ==
    IF gateA(st, u, x)
    THEN IF gateB(st, u, x)
         THEN LET st1 == [st EXCEPT !.num.numEdgeCollisionChecks_ = @ + 1]
              IN IF checkEdge(u, x)
                 THEN IF improvesGraph(st1, u, x)
                      THEN LET st2 == addEdge(st1, u, x, trueEdgeCost(u, x), TRUE, TRUE)
                               st3 == IF solutionImproved(st2)
                                      THEN [st2 EXCEPT
                                              !.costs.bestCost_ = st2.vs[Goal].cost,
                                              !.q = QueueSetThreshold(@, st2.vs[Goal].cost)]
                                      ELSE st2
                           IN [st3 EXCEPT !.q = QueuePruneEdgesTo(@, st3.vs, x)]
                      ELSE st1
                 ELSE IF st.conf.useFailureTracking_
                      THEN [st1 EXCEPT !.vs = VertexMarkAsFailedChild(@, u, x)]
                      ELSE st1
         ELSE IF st.conf.useFailureTracking_
              THEN [st EXCEPT !.vs = VertexMarkAsFailedChild(@, u, x)]
              ELSE st
    ELSE IF ~QueueIsSorted(st.q) THEN resort(st)
    ELSE st

\* A variant of processedEdge that records the edges gate B rejects but not
\* the edges whose motion is in collision.
processedEdgeForgetsCollision(st, u, x) ==
    IF gateA(st, u, x)
    THEN IF gateB(st, u, x)
         THEN LET st1 == [st EXCEPT !.num.numEdgeCollisionChecks_ = @ + 1]
              IN IF checkEdge(u, x)
                 THEN IF improvesGraph(st1, u, x)
                      THEN LET st2 == addEdge(st1, u, x, trueEdgeCost(u, x), TRUE, TRUE)
                               st3 == IF solutionImproved(st2)
                                      THEN [st2 EXCEPT
                                              !.costs.bestCost_ = st2.vs[Goal].cost,
                                              !.q = QueueSetThreshold(@, st2.vs[Goal].cost)]
                                      ELSE st2
                           IN [st3 EXCEPT !.q = QueuePruneEdgesTo(@, st3.vs, x)]
                      ELSE st1
                 ELSE st1
         ELSE IF st.conf.useFailureTracking_
              THEN [st EXCEPT !.vs = VertexMarkAsFailedChild(@, u, x)]
              ELSE st
    ELSE IF ~QueueIsSorted(st.q) THEN resort(st)
    ELSE [st EXCEPT !.q = QueueFinish(@)]

\* A variant of processedEdge that stores the better cost in bestCost_ but
\* does not hand it to the queue as its threshold.
processedEdgeKeepsThreshold(st, u, x) ==
    IF gateA(st, u, x)
    THEN IF gateB(st, u, x)
         THEN LET st1 == [st EXCEPT !.num.numEdgeCollisionChecks_ = @ + 1]
              IN IF checkEdge(u, x)
                 THEN IF improvesGraph(st1, u, x)
                      THEN LET st2 == addEdge(st1, u, x, trueEdgeCost(u, x), TRUE, TRUE)
                               st3 == IF solutionImproved(st2)
                                      THEN [st2 EXCEPT
                                              !.costs.bestCost_ = st2.vs[Goal].cost]
                                      ELSE st2
                           IN [st3 EXCEPT !.q = QueuePruneEdgesTo(@, st3.vs, x)]
                      ELSE st1
                 ELSE IF st.conf.useFailureTracking_
                      THEN [st1 EXCEPT !.vs = VertexMarkAsFailedChild(@, u, x)]
                      ELSE st1
         ELSE IF st.conf.useFailureTracking_
              THEN [st EXCEPT !.vs = VertexMarkAsFailedChild(@, u, x)]
              ELSE st
    ELSE IF ~QueueIsSorted(st.q) THEN resort(st)
    ELSE [st EXCEPT !.q = QueueFinish(@)]

\* The planner state after the popped edge (u, x) went through the gates.
processedEdge(st, u, x) ==
    IF gateA(st, u, x)
    THEN IF gateB(st, u, x)
         THEN LET st1 == [st EXCEPT !.num.numEdgeCollisionChecks_ = @ + 1]
              IN IF checkEdge(u, x)
                 THEN IF improvesGraph(st1, u, x)
                      THEN LET st2 == addEdge(st1, u, x, trueEdgeCost(u, x), TRUE, TRUE)
                               st3 == IF solutionImproved(st2)
                                      THEN [st2 EXCEPT
                                              !.costs.bestCost_ = st2.vs[Goal].cost,
                                              !.q = QueueSetThreshold(@, st2.vs[Goal].cost)]
                                      ELSE st2
                           IN [st3 EXCEPT !.q = QueuePruneEdgesTo(@, st3.vs, x)]
                      ELSE st1
                 ELSE IF st.conf.useFailureTracking_
                      THEN [st1 EXCEPT !.vs = VertexMarkAsFailedChild(@, u, x)]
                      ELSE st1
         ELSE IF st.conf.useFailureTracking_
              THEN [st EXCEPT !.vs = VertexMarkAsFailedChild(@, u, x)]
              ELSE st
    ELSE IF ~QueueIsSorted(st.q) THEN resort(st)
    ELSE [st EXCEPT !.q = QueueFinish(@)]

\* The log after the popped edge (u, x) went through the gates: checkEdge is
\* called when both gates pass; a rewire of x is noted in the entries of x.
LoggedChecks(st, u, x) ==
    LET checked == gateA(st, u, x) /\ gateB(st, u, x)
        rewired == edgeAdded(st, u, x) /\ VertexIsConnected(st.vs, x)
        noted == {IF rewired /\ e.src = x THEN [e EXCEPT !.srcRewired = TRUE] ELSE e
                    : e \in motionChecks}
    IN IF checked /\ st.conf.useFailureTracking_
       THEN noted \cup {[src |-> u, tgt |-> x, failed |-> ~checkEdge(u, x),
                          srcRewired |-> FALSE, batch |-> st.num.numBatches_]}
       ELSE noted

\* The log after the popped edge (u, x) went through the gates: a rewire of
\* x takes the edges out of x and out of its descendants off the log.
PopsAfterEdge(st, u, x) ==
    IF edgeAdded(st, u, x) /\ VertexIsConnected(st.vs, x)
    THEN [popLog EXCEPT !.edges = {p \in @ : p[1] \notin ({x} \cup VertexDescendants(st.vs, x))}]
    ELSE popLog

processEdge ==
    /\ pc = "edge"
    /\ LET u == bestEdge[1]
           x == bestEdge[2]
           improved == edgeAdded(Cur, u, x)
                       /\ solutionImproved(addEdge(Cur, u, x, trueEdgeCost(u, x), TRUE, TRUE))
       IN /\ Commit(processedEdge(Cur, u, x))
          /\ hasSolution_' = (hasSolution_ \/ improved)
          /\ approximateSoln_' = IF improved /\ ~hasSolution_ THEN FALSE ELSE approximateSoln_
          /\ stopLoop' = IF improved THEN conf.stopOnSolnChange_ ELSE stopLoop
          /\ motionChecks' = KeptChecks(LoggedChecks(Cur, u, x))
          /\ popLog' = PopsAfterEdge(Cur, u, x)
    /\ pc' = "loop"
    /\ UNCHANGED <<setup_, pdef, ptc, conf, bestEdge, allocated, result>>

(***************************************************************************)
(* The specification.                                                      *)
(***************************************************************************)
Next ==
    \/ SetProblemDefinition
    \/ setStrictQueueOrdering
    \/ setSamplesPerBatch
    \/ setPruning
    \/ setStopOnSolnImprovement
    \/ setUseFailureTracking
    \/ setRewireFactor
    \/ setKNearest
    \/ setPruneThresholdFraction
    \/ setup
    \/ getRngLocalSeed
    \/ setRngLocalSeed
    \/ clear
    \/ solveBegin
    \/ terminationFires
    \/ iterationBegin
    \/ solveReturn
    \/ batchTest
    \/ popFrontEdge
    \/ processEdge

Spec == Init /\ [][Next]_vars

\* solve runs to completion on its thread: a loop that can be left is left.
FairSpec == Spec /\ WF_vars(solveReturn)

\* One call of solve on the detour problem, with failure tracking on,
\* that the termination condition does not end within the iteration bound.
DetourNext ==
    \/ SetDetourProblem
    \/ setUseFailureTracking
    \/ setup
    \/ solveBegin
    \/ iterationBegin
    \/ batchTest
    \/ popFrontEdge
    \/ processEdge

DetourSpec == Init /\ [][DetourNext]_vars

(***************************************************************************)
(* Properties.                                                             *)
(***************************************************************************)
\* A step of clear(), the only step that starts the search over.
ClearStep == pc = "idle" /\ pc' = "new"

\* C1: across the iterations of solve and across solve calls without a
\* clear, bestCost_ never increases: a step leaves it unchanged or replaces
\* it by the goal's current cost-to-come, strictly smaller than before.
C1_BestCostMonotone ==
    [][~ClearStep =>
          \/ costs'.bestCost_ = costs.bestCost_
          \/ /\ costs'.bestCost_ = vertices'[Goal].cost
             /\ isCostBetterThan(costs'.bestCost_, costs.bestCost_)]_vars

\* bestCost_ improved again after a prune at an earlier, finite solution cost.
C1_Witness ==
    /\ hasSolution_
    /\ isFinite(costs.prunedCost_)
    /\ isCostBetterThan(costs.bestCost_, costs.prunedCost_)

\* The published path is the goal's parent chain reversed, from the start to
\* the goal, along tree edges whose motion is free.
PathIsGoalChain(path) ==
    /\ path = publishSolution(vertices)
    /\ Len(path) >= 1
    /\ path[1] = Start
    /\ path[Len(path)] = Goal
    /\ \A i \in 1..(Len(path) - 1) :
          /\ vertices[path[i + 1]].parent = path[i]
          /\ path[i + 1] \in vertices[path[i]].children
          /\ CheckMotion(path[i], path[i + 1])

\* C2: whenever solve returns with a solution, the published path is the
\* goal's parent chain reversed: it starts at the start state, ends at the
\* goal state, and every consecutive pair is a tree edge that passed
\* checkMotion.
C2_PublishedPathFromStart ==
    (result.returned /\ result.solutionFound) => PathIsGoalChain(result.path)

\* C3: solve returns (solution found, approximate) with approximate false
\* and solution found exactly when bestCost_ is finite; a search without a
\* solution returns false and raises no error.
C3_ReturnStatus ==
    result.returned =>
        /\ ~result.approximate
        /\ result.solutionFound <=> isFinite(costs.bestCost_)
        /\ ~result.threw

\* A solve call returned with a solution after a search of several batches.
C3_Witness ==
    /\ result.returned
    /\ result.solutionFound
    /\ isFinite(costs.bestCost_)
    /\ num.numBatches_ >= 2

\* No better solution exists (minCost_ >= bestCost_) or the objective is satisfied.
SearchOver ==
    \/ ~isCostBetterThan(costs.minCost_, costs.bestCost_)
    \/ IsSatisfied(costs.bestCost_, pdef.costThreshold)

\* C4: once minCost_ >= bestCost_ or the objective is satisfied, the main
\* loop exits (no further iteration starts before solve returns) and no
\* edge is added to the tree after that point.
C4_Termination ==
    /\ [][(InSolve /\ SearchOver) =>
            /\ num'.numIterations_ = num.numIterations_
            /\ vertices' = vertices
            /\ vertexNN_' = vertexNN_]_vars
    /\ ((InSolve /\ SearchOver) ~> (pc = "idle" /\ result.returned))

\* The loop is at its head with a solution that cannot be improved, after a
\* search that went on past an earlier, worse solution.
C4_Witness ==
    /\ pc = "loop"
    /\ hasSolution_
    /\ ~isCostBetterThan(costs.minCost_, costs.bestCost_)
    /\ num.numIterations_ >= 2

\* solve returned from a search of the start = goal problem that was not
\* cancelled before its first iteration.
StartIsGoalSolved ==
    /\ pdef.goalAtStart
    /\ result.returned
    /\ (num.numIterations_ >= 1 \/ ~ptc)

\* C5 as stated: in the start = goal problem solve finds a solution in one
\* iteration, bestCost_ is 0 and the published path is the single state.
C5_SingleStatePath ==
    StartIsGoalSolved =>
        /\ result.solutionFound
        /\ num.numIterations_ = 1
        /\ costs.bestCost_ = 0
        /\ Len(result.path) = 1
        /\ StateX(result.path[1]) = StateX(Start)
        /\ StateY(result.path[1]) = StateY(Start)

\* C5 amended: in the start = goal problem solve finds a solution in one
\* iteration, bestCost_ is 0 and the published path holds two states, that
\* of the start vertex and that of the goal vertex, which are the same point.
C5_StartIsGoal ==
    StartIsGoalSolved =>
        /\ result.solutionFound
        /\ num.numIterations_ = 1
        /\ costs.bestCost_ = 0
        /\ result.path = <<Start, Goal>>
        /\ StateX(Goal) = StateX(Start)
        /\ StateY(Goal) = StateY(Start)

C5_Witness ==
    /\ StartIsGoalSolved
    /\ result.solutionFound
    /\ num.numIterations_ = 1
    /\ Len(result.path) = 2

\* C6: every live vertex is in exactly one of the tree index and the sample
\* pool, never in both, and the start and the goal never in neither; a
\* vertex is in the tree index iff it is the root or has a parent.
C6_Partition ==
    setup_ =>
        /\ vertexNN_ \cap freeStateNN_ = {}
        /\ {Start, Goal} \subseteq vertexNN_ \cup freeStateNN_
        /\ \A v \in Vtx : v \in vertexNN_ <=> VertexIsConnected(vertices, v)
        /\ \A v \in freeStateNN_ : ~VertexIsConnected(vertices, v)

\* Between two iterations, after extends, sampling and a prune that
\* disconnected tree vertices and dropped states, with vertices on both sides.
C6_Witness ==
    /\ pc = "loop"
    /\ num.numVerticesDisconnected_ > 0
    /\ num.numFreeStatesPruned_ > 0
    /\ Cardinality(vertexNN_) >= 2
    /\ freeStateNN_ # {}

\* C7: following the parent links from any tree vertex reaches the root
\* without visiting a vertex twice, and the children sets are the inverse of
\* the parent links (one path from the root to each tree vertex); so no
\* rewire attaches a vertex under one of its own descendants.
C7_Acyclic ==
    \A v \in vertexNN_ :
        /\ v \notin VertexAncestors(vertices, v)
        /\ v = Start \/ Start \in VertexAncestors(vertices, v)
        /\ \A w \in Vtx : v \in vertices[w].children <=> vertices[v].parent = w

\* A tree of depth two or more in which a vertex with children was rewired.
C7_Witness ==
    /\ num.numRewirings_ > 0
    /\ \E v \in vertexNN_ :
          /\ vertices[v].parent \notin {NoVertex, Start}
          /\ vertices[v].children # {}

\* C8: after any addEdge and after any resort, every tree vertex other than
\* the root has the cost of its parent combined with the true cost of the
\* edge from its parent, descendants of a rewired vertex included, and the
\* root has cost 0.
C8_CostConsistency ==
    setup_ =>
        /\ vertices[Start].cost = 0
        /\ \A v \in vertexNN_ \ {Start} :
              /\ vertices[v].parent # NoVertex
              /\ vertices[v].cost =
                    CombineCosts(vertices[vertices[v].parent].cost,
                                 trueEdgeCost(vertices[v].parent, v))

\* Right after an iteration that rewired a vertex that has children.
C8_Witness ==
    /\ pc = "loop"
    /\ bestEdge # NoEdge
    /\ vertices[bestEdge[2]].parent = bestEdge[1]
    /\ vertices[bestEdge[2]].children # {}
    /\ num.numRewirings_ > 0

\* Every vertex in the tree index or in the sample pool has f_hat < bestCost_.
AllInsideInformedSet ==
    \A v \in vertexNN_ \cup freeStateNN_ :
        isCostBetterThan(lowerBoundHeuristicVertex(v), costs.bestCost_)

\* A step in which newBatch, and with it prune(), was called.
PruneCalled == num'.numBatches_ = num.numBatches_ + 1

\* A step in which prune() passed its tests and pruned.
PruneRan == num'.numPrunings_ = num.numPrunings_ + 1

\* C9 as stated: whenever prune() returns and bestCost_ is finite, every
\* vertex still in the tree index or in the sample pool has f_hat < bestCost_.
C9_SoundAfterEveryCall ==
    [][(PruneCalled /\ isFinite(costs'.bestCost_)) => AllInsideInformedSet']_vars

\* C9 amended: whenever prune() returns after it passed its tests and
\* pruned, every vertex still in the tree index or in the sample pool has
\* f_hat < bestCost_.
C9_SoundAfterPruning ==
    [][(PruneRan /\ isFinite(costs'.bestCost_)) => AllInsideInformedSet']_vars

\* Right after a prune() that disconnected tree vertices and dropped states.
C9_Witness ==
    /\ pc = "pop"
    /\ isFinite(costs.bestCost_)
    /\ costs.prunedCost_ = costs.bestCost_
    /\ num.numPrunings_ > 0
    /\ num.numVerticesDisconnected_ > 0
    /\ num.numFreeStatesPruned_ > 0
    /\ AllInsideInformedSet

\* C10: a second prune() with bestCost_ unchanged removes no sample,
\* disconnects no tree vertex and leaves prunedCost_ and the pruning counter
\* unchanged: right after a step that called prune(), another call changes
\* nothing, and from any state two calls give the state one call gives.
C10_PruneIdempotent ==
    /\ [](setup_ => prune(prune(Cur)) = prune(Cur))
    /\ [][PruneCalled => prune(Cur)' = Cur']_vars

\* Right after a prune() that pruned at a finite cost and disconnected tree
\* vertices, where a second call finds the cost unchanged.
C10_Witness ==
    /\ pc = "pop"
    /\ hasSolution_
    /\ num.numPrunings_ > 0
    /\ num.numVerticesDisconnected_ > 0
    /\ costs.prunedCost_ = costs.bestCost_
    /\ ~pruneWanted(Cur)

\* A step in which prune() dropped a state or disconnected a tree vertex.
PruneRemoved ==
    /\ PruneCalled
    /\ \/ num'.numFreeStatesPruned_ > num.numFreeStatesPruned_
       \/ num'.numVerticesDisconnected_ > num.numVerticesDisconnected_
       \/ ~(freeStateNN_ \subseteq freeStateNN_')
       \/ vertexNN_' # vertexNN_

\* f > pct/100 for a rational f, the sign kept; a NaN compares false.
ExceedsPercent(f, pct) ==
    IF f[2] = 0 THEN f[1] > 0
    ELSE 100 * f[1] > pct * f[2]

\* A step in which prune() was called and left everything as it was.
PruneSkipped ==
    /\ costs'.prunedCost_ = costs.prunedCost_
    /\ num'.numPrunings_ = num.numPrunings_
    /\ num'.numFreeStatesPruned_ = num.numFreeStatesPruned_
    /\ num'.numVerticesDisconnected_ = num.numVerticesDisconnected_
    /\ vertexNN_' = vertexNN_
    /\ freeStateNN_ \subseteq freeStateNN_'

\* The sampler has an informed measure and it is not smaller than the domain's.
InformedMeasureNotSmaller ==
    pdef.hasInformedMeasure /\ InformedMeasure(costs.bestCost_) >= SpaceMeasure

\* C11 as stated: prune() removes or disconnects something only when pruning
\* is enabled, a solution exists and (bestCost_ - prunedCost_)/prunedCost_
\* exceeds pruneFraction_ (an infinite prunedCost_ is an infinite change);
\* and it changes nothing when the sampler's informed measure is not smaller
\* than the measure of the domain.
C11_PruneOnSignedChange ==
    [][(PruneRemoved =>
           /\ conf.usePruning_
           /\ hasSolution_
           /\ ExceedsPercent(fractionalChange(costs.bestCost_, costs.prunedCost_),
                             conf.pruneFraction_))
       /\ ((PruneCalled /\ InformedMeasureNotSmaller) => PruneSkipped)]_vars

\* C11 amended: prune() removes or disconnects something only when pruning
\* is enabled, a solution exists and the absolute value of
\* (bestCost_ - prunedCost_)/prunedCost_ exceeds pruneFraction_ (an infinite
\* prunedCost_ is an infinite change); and it changes nothing when the
\* sampler's informed measure is not smaller than the measure of the domain.
C11_PruneOnAbsoluteChange ==
    [][(PruneRemoved =>
           /\ conf.usePruning_
           /\ hasSolution_
           /\ AbsExceedsPercent(fractionalChange(costs.bestCost_, costs.prunedCost_),
                                conf.pruneFraction_))
       /\ ((PruneCalled /\ InformedMeasureNotSmaller) => PruneSkipped)]_vars

\* Right after a newBatch whose prune() passed the first test (pruning
\* enabled, a solution, the cost changed) and was skipped because the
\* informed measure is the measure of the whole domain.
C11_Witness ==
    /\ pc = "pop"
    /\ intQueue_.edgeQueue = {}
    /\ num.numBatches_ > 0
    /\ pruneWanted(Cur)
    /\ InformedMeasureNotSmaller
    /\ costs.prunedCost_ = Infinity
    /\ num.numPrunings_ = 0

\* The step is the one batchTest takes from the state st1 its expansions
\* reached: the queue was empty there and newBatch, with prune(), ran.
BatchStepFrom(st1) ==
    /\ pc = "batch"
    /\ QueueIsEmpty(st1)
    /\ vertices' = newBatch(st1).vs
    /\ freeStateNN_' = newBatch(st1).free
    /\ vertexNN_' = newBatch(st1).tree
    /\ intQueue_' = newBatch(st1).q
    /\ costs' = newBatch(st1).costs
    /\ num' = newBatch(st1).num

\* Every vertex of the sample pool has f_hat < bestCost_.
PoolInsideInformedSet ==
    \A v \in freeStateNN_ :
        isCostBetterThan(lowerBoundHeuristicVertex(v), costs.bestCost_)

\* A step in which prune() pruned at a cost C1 = bestCost_ better than the
\* cost C0 = prunedCost_ of the solution it pruned at before.
PruneAfterImprovement ==
    /\ PruneRan
    /\ isFinite(costs.prunedCost_)
    /\ isCostBetterThan(costs.bestCost_, costs.prunedCost_)

\* C12 as stated: when prune() runs after the solution improved, the sample
\* pool after prune() holds no more vertices than before it, and every vertex
\* of the pool afterwards has g_hat + h_hat < bestCost_, the tree vertices
\* that prune() returned to the pool included.
C12_PoolNeverGrows ==
    [][PruneAfterImprovement =>
          \A drawn \in Draws(Cur) :
              LET st1 == QueueUpdateQueue(Cur, drawn)
              IN BatchStepFrom(st1) =>
                    /\ Cardinality(freeStateNN_') <= Cardinality(st1.free)
                    /\ PoolInsideInformedSet']_vars

\* C12 amended: when prune() runs after the solution improved, the sample
\* pool after prune() holds no more vertices than before it plus the tree
\* vertices prune() disconnected, and every vertex of the pool afterwards
\* has g_hat + h_hat < bestCost_, the returned tree vertices included.
\* Stated of every prune() that pruned, the first one (from an infinite
\* prunedCost_) included.
C12_PoolGrowsByRecycledOnly ==
    [][PruneRan =>
          \A drawn \in Draws(Cur) :
              LET st1 == QueueUpdateQueue(Cur, drawn)
              IN BatchStepFrom(st1) =>
                    /\ Cardinality(freeStateNN_') <=
                          Cardinality(st1.free)
                          + (num'.numVerticesDisconnected_ - num.numVerticesDisconnected_)
                    /\ PoolInsideInformedSet']_vars

\* Right after a second prune(), at a cost better than the cost of the first
\* one, that disconnected tree vertices and returned some to the pool.
C12_Witness ==
    /\ pc = "pop"
    /\ num.numPrunings_ >= 2
    /\ costs.prunedCost_ = costs.bestCost_
    /\ isFinite(costs.bestCost_)
    /\ num.numVerticesDisconnected_ > 0
    /\ freeStateNN_ # {}
    /\ PoolInsideInformedSet

\* A step of solve() that calls checkEdge on the popped edge.
MotionCheckStep ==
    /\ pc = "edge"
    /\ pc' = "loop"
    /\ num'.numEdgeCollisionChecks_ = num.numEdgeCollisionChecks_ + 1

\* C13 as stated: with failure tracking on, checkMotion is called at most
\* once for an ordered pair (u, x) while u and x stay in their partition,
\* whether the earlier check succeeded or failed: no motion check is made of
\* a pair that the log of checks since the last partition change holds.
C13_NoMotionCheckedTwice ==
    [][(MotionCheckStep /\ conf.useFailureTracking_) =>
          ~\E e \in motionChecks : e.src = bestEdge[1] /\ e.tgt = bestEdge[2]]_vars

\* C13 amended: with failure tracking on, a motion check of (u, x) that
\* failed is not repeated while u and x stay in their partition and u keeps
\* its parent (a rewire of u clears its failure memory).
C13_NoFailedMotionRecheckedUnlessRewired ==
    [][(MotionCheckStep /\ conf.useFailureTracking_) =>
          ~\E e \in motionChecks :
              /\ e.src = bestEdge[1]
              /\ e.tgt = bestEdge[2]
              /\ e.failed
              /\ ~e.srcRewired]_vars

\* With failure tracking on, an edge is popped whose motion check failed in
\* an earlier batch and whose ends have stayed in their partition since; its
\* source still remembers the failure.
C13_Witness ==
    /\ pc = "edge"
    /\ conf.useFailureTracking_
    /\ \E e \in motionChecks :
          /\ e.failed
          /\ ~e.srcRewired
          /\ e.batch < num.numBatches_
          /\ e.tgt \in vertices[e.src].failed
          /\ bestEdge[1] = e.src

\* The sort key of the edge (u, x) computed from the tree as it is now.
CurrentKey(u, x) == QueueEntry(vertices, u, x)

\* C14: with strict queue ordering, when an edge has been popped the queue
\* has no outstanding unsorted marks and no edge left in the queue has a
\* current sort key (f through the edge, then g at the target) better than
\* the popped edge's.
C14_StrictPopIsMinimum ==
    (conf.useStrictQueueOrdering_ /\ pc = "edge") =>
        /\ QueueIsSorted(intQueue_)
        /\ \A f \in intQueue_.edgeQueue :
              ~EdgeKeyBetter(CurrentKey(f.src, f.tgt), CurrentKey(bestEdge[1], bestEdge[2]))

\* With strict queue ordering, an edge is popped out of a vertex that was
\* rewired in an earlier iteration: the resort at the head of the iteration
\* cleared the marks of the rewire and recomputed the keys of its edges.
C14_Witness ==
    /\ conf.useStrictQueueOrdering_
    /\ pc = "edge"
    /\ num.numRewirings_ > 0
    /\ vertices[bestEdge[1]].parent \notin {NoVertex, Start}
    /\ QueueIsSorted(intQueue_)

\* A step that starts a batch, draws samples or runs a prune.
StartsBatchWork ==
    \/ num'.numBatches_ > num.numBatches_
    \/ num'.numSamples_ > num.numSamples_
    \/ num'.numPrunings_ > num.numPrunings_

\* The partition, acyclicity and cost-consistency invariants of the tree.
TreeInvariants == C6_Partition /\ C7_Acyclic /\ C8_CostConsistency

BadSetupStep ==
    /\ pc = "new"
    /\ result'.call = "setup"
    /\ result' # result
    /\ ~pdef.defined \/ pdef.startCount # 1

\* C16: a setup() call without a problem definition or with a number of
\* start states other than 1 logs an error, leaves the planner marked not set
\* up and returns without creating the start vertex, the goal vertex, the
\* queue or the sampler and without touching bestCost_, the tree index or the
\* sample pool; a planner with such a problem is never set up.
C16_BadSetupCreatesNothing ==
    [][BadSetupStep =>
          /\ ~setup_'
          /\ result'.error
          /\ pc' = "new"
          /\ ~allocated'
          /\ UNCHANGED <<vertices, freeStateNN_, vertexNN_, intQueue_, nn, costs, num>>
          /\ vertexNN_' = {} /\ freeStateNN_' = {}]_vars

\* setup() was called with two start states and reported the error.
C16_Witness ==
    /\ pdef.defined
    /\ pdef.startCount = 2
    /\ result.call = "setup"
    /\ result.error
    /\ ~setup_
    /\ pc = "new"

\* A call of setPruneThresholdFraction.
SetPruneFractionStep ==
    /\ pc = "new"
    /\ result'.call = "setPruneThresholdFraction"
    /\ result' # result \/ conf'.pruneFraction_ # conf.pruneFraction_

\* C17: a call of setPruneThresholdFraction either throws and leaves the
\* stored fraction as it was, or stores an argument from [0, 1] (0 to 100
\* percent); arguments below 0 or above 1 are never stored, so the stored
\* fraction is in [0, 1] after every step.
C17_PruneFractionInRange ==
    [][/\ conf'.pruneFraction_ \in 0..100
       /\ SetPruneFractionStep =>
             \/ result'.threw /\ conf' = conf
             \/ /\ ~result'.threw
                /\ \E f \in PruneFractionArgs :
                      /\ 0 <= f /\ f <= 100
                      /\ conf' = [conf EXCEPT !.pruneFraction_ = f]]_vars

\* A call with an argument out of range threw after a call that stored one
\* half: the stored fraction is still one half.
C17_Witness ==
    /\ result.call = "setPruneThresholdFraction"
    /\ result.threw
    /\ conf.pruneFraction_ = 50

\* A call of getRngLocalSeed or setRngLocalSeed.
SeedStep ==
    /\ result'.call \in {"getRngLocalSeed", "setRngLocalSeed"}
    /\ result' # result

\* C18: getRngLocalSeed and setRngLocalSeed throw exactly when no sampler is
\* allocated (before setup, after clear), and the throwing call changes
\* nothing of the planner: the planner can be set up afterwards, and the
\* same call then succeeds.
C18_SeedNeedsSampler ==
    [][SeedStep =>
          /\ result'.threw <=> ~allocated
          /\ ~result'.error
          /\ UNCHANGED <<pc, setup_, pdef, ptc, conf, vertices, freeStateNN_, vertexNN_,
                         intQueue_, nn, costs, hasSolution_, approximateSoln_, stopLoop,
                         num, bestEdge, allocated>>
          /\ (pc = "idle") => allocated /\ ~result'.threw]_vars

\* A seed call threw on a planner that has its problem but no sampler yet.
C18_Witness ==
    /\ result.call \in {"getRngLocalSeed", "setRngLocalSeed"}
    /\ result.threw
    /\ ~allocated
    /\ pdef.defined
    /\ pdef.startCount = 1
    /\ pc = "new"

\* C19: addVertex of a vertex that has no parent and is not the root throws
\* before it changes anything (the sample pool, the tree index, the vertex
\* queue and numVertices_ are as before), and the main loop never makes
\* such a call: the sample an added edge leads to has its parent when
\* addVertex is reached, so it enters the tree index, leaves the sample pool
\* and is counted.
C19_UnconnectedVertexRejected ==
    setup_ =>
        /\ \A v \in Vtx :
              (~VertexHasParent(vertices, v) /\ ~VertexIsRoot(v)) =>
                  \A removeFromFree, updateExpansionQueue \in BOOLEAN :
                      LET st == addVertex(Cur, v, removeFromFree, updateExpansionQueue)
                      IN /\ addVertexThrows(Cur, v)
                         /\ st.free = freeStateNN_
                         /\ st.tree = vertexNN_
                         /\ st.q.vertexQueue = intQueue_.vertexQueue
                         /\ st.num.numVertices_ = num.numVertices_
        /\ (/\ pc = "edge"
            /\ edgeAdded(Cur, bestEdge[1], bestEdge[2])
            /\ ~VertexIsConnected(vertices, bestEdge[2])) =>
                LET st == processedEdge(Cur, bestEdge[1], bestEdge[2])
                IN /\ bestEdge[2] \in st.tree
                   /\ bestEdge[2] \notin st.free
                   /\ st.num.numVertices_ = num.numVertices_ + 1
        /\ Start \in vertexNN_

\* An edge to a sample is about to be added while other samples, without a
\* parent, wait in the pool.
C19_Witness ==
    /\ pc = "edge"
    /\ edgeAdded(Cur, bestEdge[1], bestEdge[2])
    /\ bestEdge[2] \in freeStateNN_
    /\ freeStateNN_ \ {bestEdge[2], Goal} # {}
    /\ Cardinality(vertexNN_) >= 2

\* An iteration in which bestCost_ improves.
ImprovementStep ==
    /\ pc = "edge"
    /\ isCostBetterThan(costs'.bestCost_, costs.bestCost_)

\* C20: with stopOnSolnChange_ set, the iteration in which bestCost_ improves
\* sets stopLoop, and from the loop test with stopLoop set no iteration
\* starts (no further edge is popped before solve returns); with it unset,
\* no step of solve sets stopLoop and solve leaves the loop only on a satisfied
\* objective, on the termination condition or when minCost_ is not better
\* than bestCost_.
C20_StopOnImprovement ==
    [][/\ (ImprovementStep /\ conf.stopOnSolnChange_) => stopLoop'
       /\ (pc = "loop" /\ stopLoop) => pc' \in {"loop", "idle"}
       /\ (InSolve /\ ~conf.stopOnSolnChange_) => ~stopLoop'
       /\ (pc = "loop" /\ pc' = "idle" /\ ~conf.stopOnSolnChange_) =>
              \/ IsSatisfied(costs.bestCost_, pdef.costThreshold)
              \/ ptc
              \/ ~isCostBetterThan(costs.minCost_, costs.bestCost_)]_vars

\* solve() returned because of the improvement alone: the objective is not
\* satisfied, the termination condition is false, a better solution may
\* exist and edges are left in the queue.
C20_Witness ==
    /\ pc = "idle"
    /\ result.returned
    /\ conf.stopOnSolnChange_
    /\ stopLoop
    /\ hasSolution_
    /\ ~ptc
    /\ ~IsSatisfied(costs.bestCost_, pdef.costThreshold)
    /\ isCostBetterThan(costs.minCost_, costs.bestCost_)
    /\ num.numIterations_ < MaxIter

\* A setup() call that passes its sanity checks.
SetupSucceeds == pc = "new" /\ pc' = "idle"

\* What setup() leaves behind.
FreshlySetUp ==
    /\ costs.bestCost_ = Infinity
    /\ costs.prunedCost_ = Infinity
    /\ costs.minCost_ = costToComeHeuristic(Goal)
    /\ costs.costSampled_ = Infinity
    /\ ~hasSolution_
    /\ freeStateNN_ = {Goal}
    /\ ~VertexIsConnected(vertices, Goal)
    /\ vertices[Goal].cost = Infinity
    /\ vertexNN_ = {Start}
    /\ VertexIsRoot(Start)
    /\ Start \in intQueue_.vertexQueue
    /\ nn.N = 2
    /\ IF conf.useKNearest_
       THEN nn.k_ = k(2, minimumRggK(conf.rewireFactor_))
       ELSE nn.r_ = r(2, conf.rewireFactor_, InformedMeasure(Infinity))

\* C21: after a successful setup bestCost_, prunedCost_ and costSampled_ are
\* infinite, minCost_ is g_hat(goal), no solution is recorded, the sample
\* pool holds exactly the goal (disconnected, of infinite cost), the tree
\* holds exactly the start, which is in the vertex queue, and r_ or k_ is
\* computed with N = 2.
C21_AfterSetup == [][SetupSucceeds => FreshlySetUp']_vars

\* Set up with the k-nearest option, before the first solve.
C21_Witness ==
    /\ pc = "idle"
    /\ setup_
    /\ result.call = "setup"
    /\ ~result.error
    /\ conf.useKNearest_
    /\ nn.k_ > 0

\* The step of an iteration that takes the popped edge through the gates.
EdgeStep == pc = "edge" /\ pc' = "loop"

\* The tree: the tree index and the parent of every vertex.
TreeUnchanged ==
    /\ vertexNN_' = vertexNN_
    /\ \A v \in Vtx : vertices'[v].parent = vertices[v].parent

\* What an iteration does with an edge that cannot improve the solution:
\* no motion check, no change of the tree; a resort when unsorted marks are
\* outstanding, finish() otherwise.
RejectedAtGateA ==
    /\ num'.numEdgeCollisionChecks_ = num.numEdgeCollisionChecks_
    /\ IF QueueIsSorted(intQueue_)
       THEN /\ TreeUnchanged
            /\ intQueue_'.edgeQueue = {}
            /\ intQueue_'.vertexQueue = {}
       ELSE /\ Commit(resort(Cur))
            /\ QueueIsSorted(intQueue_')

GateBOnBestCost(u, x) ==
    isCostBetterThan(CombineCosts3(costToComeHeuristic(u), trueEdgeCost(u, x),
                                   costToGoHeuristic(x)),
                     costs.bestCost_)

\* Gate A with the cost the claim names: g_t(u) + c_hat(u,x) + h_hat(x) < bestCost_.
GateAOnBestCost(u, x) ==
    isCostBetterThan(currentHeuristicEdge(vertices, u, x), costs.bestCost_)

\* The failed children of u after the step are those before it, with x when
\* failure tracking is on.
FailureRecorded(u, x) ==
    vertices' = [vertices EXCEPT ![u].failed =
                    IF conf.useFailureTracking_ THEN @ \cup {x} ELSE @]

EdgeAddedTo(u, x) ==
    /\ EdgeStep
    /\ bestEdge = <<u, x>>
    /\ vertices'[x].parent = u
    /\ vertices[x].parent # u

\* A queued edge into x that can no longer rewire x.
StaleEdgeTo(vs, q, x) ==
    \E e \in q.edgeQueue :
        /\ e.tgt = x
        /\ isCostWorseThanOrEquivalentTo(currentHeuristicEdgeTarget(vs, e.src, x), vs[x].cost)

\* C24: an edge (u, x) is added only if g_t(u) + c(u, x) is strictly better
\* than g_t(x), and at the end of an iteration that added an edge to x no
\* edge (s, x) with g_t(s) + c_hat(s, x) worse than or equivalent to g_t(x)
\* is left in the edge queue.
C24_ImprovementGate ==
    [][\A u, x \in Vtx :
         EdgeAddedTo(u, x) =>
           /\ isCostBetterThan(CombineCosts(vertices[u].cost, trueEdgeCost(u, x)),
                               vertices[x].cost)
           /\ ~StaleEdgeTo(vertices', intQueue_', x)]_vars

\* An edge to x is popped that will be added, while another queued edge
\* into x is stale once x hangs below the new parent.
C24_Witness ==
    /\ pc = "edge"
    /\ LET u == bestEdge[1]
           x == bestEdge[2]
           st == processedEdge(Cur, u, x)
       IN /\ st.vs[x].parent = u
          /\ vertices[x].parent # u
          /\ \E e \in intQueue_.edgeQueue :
                /\ e.tgt = x
                /\ e \notin st.q.edgeQueue

\* The edges the step puts into the edge queue.
InsertedEdges ==
    {e \in intQueue_'.edgeQueue : ~QueueHasEdge(intQueue_, e.src, e.tgt)}

\* The threshold of the queue is bestCost_ at an iteration boundary, and
\* infinite until the first solution.
ThresholdIsBestCost ==
    /\ pc \in {"idle", "loop"} => intQueue_.costThreshold = costs.bestCost_
    /\ ~hasSolution_ => intQueue_.costThreshold = Infinity

\* C25: at every iteration boundary the threshold of the queue is bestCost_
\* (infinite until the first solution), and every edge that enters the edge
\* queue has an admissible cost g_hat(u) + c_hat(u, x) + h_hat(x) strictly
\* better than bestCost_ at the time of its insertion.
C25_ThresholdSynchronised ==
    [][/\ ThresholdIsBestCost'
       /\ \A e \in InsertedEdges :
             isCostBetterThan(lowerBoundHeuristicEdge(e.src, e.tgt), costs.bestCost_)]_vars

\* With a solution of finite cost, a vertex is about to be expanded whose
\* neighbourhood holds an edge at or above the threshold, and another one
\* below it.
C25_Witness ==
    /\ pc = "pop"
    /\ hasSolution_
    /\ isFinite(costs.bestCost_)
    /\ intQueue_.vertexQueue # {}
    /\ \E u \in intQueue_.vertexQueue, x, y \in freeStateNN_ \cup vertexNN_ :
          /\ x # u
          /\ y # u
          /\ isCostWorseThanOrEquivalentTo(lowerBoundHeuristicEdge(u, x), costs.bestCost_)
          /\ isCostBetterThan(lowerBoundHeuristicEdge(u, y), costs.bestCost_)

\* Both queues are empty, as finish() leaves them.
QueuesFinished(q) == q.edgeQueue = {} /\ q.vertexQueue = {}

\* The step starts a new batch.
NewBatchStep == num'.numBatches_ > num.numBatches_

\* C26: a batch starts only at the emptiness test of an iteration, with no
\* edge to pop; it adds one to the batch counter, sets costSampled_ to
\* minCost_, empties the edge queue and queues every vertex of the pruned
\* tree for expansion; queues emptied by finish() stay empty until the next
\* iteration, which starts a batch.
C26_NewBatch ==
    [][/\ NewBatchStep =>
             /\ pc = "batch"
             /\ \E drawn \in Draws(Cur) : QueueIsEmpty(QueueUpdateQueue(Cur, drawn))
             /\ num'.numBatches_ = num.numBatches_ + 1
             /\ costs'.costSampled_ = costs.minCost_
             /\ intQueue_'.edgeQueue = {}
             /\ intQueue_'.vertexQueue = vertexNN_'
       /\ (pc = "loop" /\ pc' = "batch" /\ QueuesFinished(intQueue_)) =>
             QueuesFinished(intQueue_')
       /\ (pc = "batch" /\ pc' = "pop" /\ QueuesFinished(intQueue_)) => NewBatchStep]_vars

\* finish() has just emptied the queues on an edge that failed gate A, and
\* the loop goes on.
C26_Witness ==
    /\ pc = "loop"
    /\ loopCondition
    /\ num.numIterations_ < MaxIter
    /\ bestEdge # NoEdge
    /\ ~gateA(Cur, bestEdge[1], bestEdge[2])
    /\ QueuesFinished(intQueue_)
    /\ num.numBatches_ > 0

\* The step draws states from the sampler.
DrawStep == num'.numSamples_ > num.numSamples_

\* The step asks for the neighbourhood of a vertex.
NeighbourQueryStep == num'.numNearestNeighbours_ > num.numNearestNeighbours_

\* r_ or k_ is what updateNearestTerms computes from the graph as it is.
NearestTermsCurrent(st) == updateNearestTerms(st).nn = st.nn

\* C27: a batch draws at most once, so that the states drawn never exceed
\* samplesPerBatch_ per batch started, and none is drawn before the first
\* batch; the draw happens on the first neighbour query after the batch has
\* started, takes samplesPerBatch_ states, adds only valid ones to the
\* samples, sets costSampled_ to infinity and recomputes r_ or k_.
C27_BatchSampling ==
    [][/\ num'.numSamples_ <= num'.numBatches_ * conf'.samplesPerBatch_
       /\ DrawStep =>
             /\ NeighbourQueryStep
             /\ isFinite(costs.costSampled_)
             /\ num'.numSamples_ = num.numSamples_ + conf.samplesPerBatch_
             /\ \A v \in freeStateNN_' \ (freeStateNN_ \cup vertexNN_) : IsValid(v)
             /\ costs'.costSampled_ = Infinity
             /\ NearestTermsCurrent(Cur')
       /\ (NeighbourQueryStep /\ isFinite(costs.costSampled_) /\ num.numBatches_ > 0) =>
             DrawStep
       /\ (~isFinite(costs.costSampled_) /\ isFinite(costs'.costSampled_)) =>
             NewBatchStep \/ pc' = "new"]_vars

\* A second batch has started and not drawn yet; the sampler can return an
\* invalid state next to a valid one.
C27_Witness ==
    /\ pc = "pop"
    /\ num.numBatches_ >= 2
    /\ num.numSamples_ = (num.numBatches_ - 1) * conf.samplesPerBatch_
    /\ isFinite(costs.costSampled_)
    /\ \E d \in Draws(Cur) : \E v, w \in d : IsValid(v) /\ ~IsValid(w)

\* The step rewires x, a vertex of the tree, below u.
RewireStep(u, x) == EdgeAddedTo(u, x) /\ x \in vertexNN_

\* C28: a rewire of x below u takes x out of the children of its old
\* parent, makes u the parent of x, updates the cost of x and of every
\* descendant of x, marks x and its descendants unsorted and adds one to
\* numRewirings_; the members of the tree and of the samples, numVertices_
\* and the parent of every vertex other than x stay as they are.
C28_Rewire ==
    [][\A u, x \in Vtx :
         RewireStep(u, x) =>
           LET old == vertices[x].parent
               below == VertexDescendants(vertices', x)
           IN /\ x \notin vertices'[old].children
              /\ x \in vertices'[u].children
              /\ vertices'[x].parent = u
              /\ vertices'[x].cost = CombineCosts(vertices[u].cost, trueEdgeCost(u, x))
              /\ below = VertexDescendants(vertices, x)
              /\ \A d \in below :
                    /\ vertices'[d].cost = CombineCosts(vertices'[vertices'[d].parent].cost,
                                                        vertices'[d].edgeCost)
                    /\ vertices[d].cost - vertices'[d].cost
                         = vertices[x].cost - vertices'[x].cost
              /\ ({x} \cup below) \subseteq intQueue_'.unsorted
              /\ num'.numRewirings_ = num.numRewirings_ + 1
              /\ vertexNN_' = vertexNN_
              /\ freeStateNN_' = freeStateNN_
              /\ num'.numVertices_ = num.numVertices_
              /\ \A v \in Vtx \ {x} : vertices'[v].parent = vertices[v].parent]_vars

\* An edge is popped that rewires a vertex with a child of its own.
C28_Witness ==
    /\ pc = "edge"
    /\ bestEdge[2] \in vertexNN_
    /\ vertices[bestEdge[2]].children # {}
    /\ edgeAdded(Cur, bestEdge[1], bestEdge[2])

\* The step connects the sample x to the tree, below u.
ExtendStep(u, x) == EdgeAddedTo(u, x) /\ x \notin vertexNN_

\* C29: an extension by the edge (u, x) makes x a child of u of cost
\* g_t(u) + c(u, x), takes x out of the samples, puts it into the tree and
\* into the vertex queue and adds one to numVertices_; numRewirings_, the
\* unsorted marks and the parent and cost of every other vertex stay as
\* they are.
C29_Extend ==
    [][\A u, x \in Vtx :
         ExtendStep(u, x) =>
           /\ vertices'[x].parent = u
           /\ x \in vertices'[u].children
           /\ vertices'[x].cost = CombineCosts(vertices[u].cost, trueEdgeCost(u, x))
           /\ x \in freeStateNN_
           /\ freeStateNN_' = freeStateNN_ \ {x}
           /\ vertexNN_' = vertexNN_ \cup {x}
           /\ intQueue_'.vertexQueue = intQueue_.vertexQueue \cup {x}
           /\ num'.numVertices_ = num.numVertices_ + 1
           /\ num'.numRewirings_ = num.numRewirings_
           /\ intQueue_'.unsorted = intQueue_.unsorted
           /\ \A v \in Vtx \ {x} :
                 /\ vertices'[v].parent = vertices[v].parent
                 /\ vertices'[v].cost = vertices[v].cost]_vars

\* An edge is popped that connects a sample to the tree while unsorted
\* marks are outstanding.
C29_Witness ==
    /\ pc = "edge"
    /\ bestEdge[2] \in freeStateNN_
    /\ edgeAdded(Cur, bestEdge[1], bestEdge[2])
    /\ intQueue_.unsorted # {}

\* The N from which r_ or k_ was computed last is the size of the graph.
NearestTermsFromCurrentSize(st) ==
    st.nn.N = Cardinality(st.tree) + Cardinality(st.free)

\* The number of vertices and samples.
GraphSize == Cardinality(vertexNN_) + Cardinality(freeStateNN_)

PopStep == pc = "pop" /\ pc' = "edge"

\* No two entries of the edge queue are the same edge.
NoEdgeQueuedTwice(q) ==
    \A e, f \in q.edgeQueue : (e.src = f.src /\ e.tgt = f.tgt) => e = f

\* C31: within a batch an edge (u, x) is popped at most once, unless u or an
\* ancestor of u was rewired between the two pops, and the edge queue never
\* holds the same edge twice.
C31_NoEdgeRetried ==
    [][/\ PopStep => bestEdge' \notin popLog.edges
       /\ NoEdgeQueuedTwice(intQueue_')]_vars

\* In a later batch a third edge has been popped, out of a vertex whose
\* other edge was popped before in this batch.
C31_Witness ==
    /\ pc = "edge"
    /\ num.numBatches_ >= 2
    /\ Cardinality(popLog.edges) >= 3
    /\ \E p \in popLog.edges : p[1] = bestEdge[1] /\ p[2] # bestEdge[2]

\* The lexicographic order of two logged keys.
KeyBetter(a, b) == a[1] < b[1] \/ (a[1] = b[1] /\ a[2] < b[2])

\* C32 as stated: within a batch the keys of the edges popped one after the
\* other do not decrease, pops with unsorted marks outstanding excepted.
C32_PopKeysNonDecreasing ==
    [][(PopStep /\ popLog.key # NoKey /\ popLog'.key # NoKey)
          => ~KeyBetter(popLog'.key, popLog.key)]_vars

\* With strict queue ordering and a rewire behind it, an edge has been
\* popped from a sorted queue after another one of the same batch.
C32_Witness ==
    /\ pc = "edge"
    /\ conf.useStrictQueueOrdering_
    /\ num.numRewirings_ > 0
    /\ popLog.key # NoKey
    /\ Cardinality(popLog.edges) >= 2

\* Every vertex that waits in the vertex queue is expanded, best first.
RECURSIVE ExpandEveryVertex(_)
ExpandEveryVertex(st) ==
    IF st.q.vertexQueue = {} THEN st
    ELSE ExpandEveryVertex(QueueExpandVertex(st, QueueFrontVertex(st.vs, st.q), {}))

\* The expansion of the tree: every vertex is inserted into a queue without
\* edges and expanded.
RECURSIVE InsertEveryVertex(_, _)
InsertEveryVertex(q, todo) ==
    IF todo = {} THEN q
    ELSE LET v == CHOOSE x \in todo : TRUE
         IN InsertEveryVertex(QueueInsertVertex(q, v), todo \ {v})

ExpandedTree(st) ==
    ExpandEveryVertex([st EXCEPT !.q = InsertEveryVertex(
                                          [@ EXCEPT !.edgeQueue = {}, !.vertexQueue = {}],
                                          st.tree)])

\* reset() and the expansion of every vertex it marks.
ResetAndExpand(st) == ExpandEveryVertex([st EXCEPT !.q = QueueReset(@, st.tree)])

\* No draw is pending, so that an expansion leaves samples, r_ and k_ alone.
SamplesDrawn == ~isCostBetterThan(costs.costSampled_, costs.bestCost_)

ResortWithoutMarks ==
    /\ pc = "loop"
    /\ pc' = "batch"
    /\ conf.useStrictQueueOrdering_
    /\ QueueIsSorted(intQueue_)

C35_NoFailedAncestor ==
    \A u \in Vtx : vertices[u].failed \cap VertexAncestors(vertices, u) = {}

\* C35: the failure memory of u is emptied when u itself gets another
\* parent or leaves the tree; it grows only by the target of the popped edge
\* (u, x), which is no ancestor of u at that moment; and a failed child x
\* of u becomes an ancestor of u only by a rewire that leaves the parent of
\* u as it is, that of a proper ancestor of u.
C35_FailureMemory ==
    [][\A u \in Vtx :
          /\ vertices'[u].parent # vertices[u].parent => vertices'[u].failed = {}
          /\ \A x \in vertices'[u].failed \ vertices[u].failed :
                /\ pc = "edge"
                /\ bestEdge = <<u, x>>
                /\ x \notin VertexAncestors(vertices', u)
          /\ \A x \in vertices'[u].failed \cap VertexAncestors(vertices', u) :
                x \notin VertexAncestors(vertices, u) =>
                   /\ x \in vertices[u].failed
                   /\ vertices'[u].parent = vertices[u].parent
                   /\ num'.numRewirings_ > num.numRewirings_]_vars

\* With failure tracking on, a failed child of u has become an ancestor of
\* u, two or more edges above it.
C35_Witness ==
    /\ conf.useFailureTracking_
    /\ \E u \in vertexNN_ : \E x \in vertices[u].failed :
          /\ x \in VertexAncestors(vertices, u)
          /\ x # vertices[u].parent

\* C36: at every iteration boundary after a solution was found the goal
\* vertex is in the tree and its cost-to-come is bestCost_.
C36_GoalStaysConnected ==
    (pc = "loop" /\ hasSolution_) =>
        /\ Goal \in vertexNN_
        /\ vertices[Goal].cost = costs.bestCost_

\* C37: the main loop never pops from an empty queue: where popFrontEdge is
\* called, after the new-batch step, the queue yields an edge.
C37_NeverPopsEmptyQueue ==
    pc = "pop" => \A drawn \in Draws(Cur) : ~QueueIsEmpty(QueueUpdateQueue(Cur, drawn))

\* The search state of a planner just constructed, with the options of the
\* moment.
Constructed ==
    [conf |-> conf, vs |-> [v \in Vtx |-> NewVertex], free |-> {}, tree |-> {},
     q |-> EmptyQueue, nn |-> [r_ |-> 0, k_rgg_ |-> 0, k_ |-> 0, N |-> 0],
     costs |-> [bestCost_ |-> Infinity, prunedCost_ |-> Infinity, minCost_ |-> 0,
                costSampled_ |-> 0],
     num |-> ZeroCounters]

\* The search state a first setup() of that planner leaves.
FirstSetup ==
    LET st0 == [Constructed EXCEPT
                   !.vs[Start] = [NewVertex EXCEPT !.cost = 0],
                   !.q.useFailureTracking = conf.useFailureTracking_,
                   !.costs = [bestCost_ |-> Infinity, prunedCost_ |-> Infinity,
                              minCost_ |-> costToComeHeuristic(Goal),
                              costSampled_ |-> Infinity]]
    IN initializeNearestTerms(addVertex(addSample(st0, Goal), Start, FALSE, TRUE))

\* C38: clear() resets the search state (vertices, both indices, queue,
\* sampler, bestCost_ and prunedCost_ infinite, no solution, every counter
\* 0, not set up) and leaves every option as it is; every successful
\* setup(), the first one or one that follows a clear(), leaves the state of
\* a first setup() with the same options.
C38_ClearResets ==
    [][/\ ClearStep =>
             /\ Cur' = Constructed
             /\ costs'.bestCost_ = Infinity
             /\ costs'.prunedCost_ = Infinity
             /\ num' = ZeroCounters
             /\ ~hasSolution_'
             /\ ~approximateSoln_'
             /\ ~allocated'
             /\ ~setup_'
             /\ conf' = conf
       /\ SetupSucceeds =>
             /\ Cur' = FirstSetup
             /\ ~hasSolution_'
             /\ ~approximateSoln_'
             /\ allocated'
             /\ setup_'
             /\ conf' = conf]_vars

\* The planner is set up again after the clear() of a search that found a
\* solution and stopped on it, with an option away from its default.
C38_Witness ==
    /\ pc = "idle"
    /\ setup_
    /\ result.call = "setup"
    /\ stopLoop
    /\ conf.stopOnSolnChange_
    /\ ~hasSolution_
    /\ num.numIterations_ = 0

\* A prune() that ran has counted itself and stored the cost it pruned at.
PruneStoredCost == PruneRan /\ costs'.prunedCost_ = costs'.bestCost_

\* C39 as stated: bestCost_ <= prunedCost_ in every state; prunedCost_
\* changes only in a prune() that ran, where it becomes bestCost_, and
\* numPrunings_ increases by one in that step and in no other.
C39_PrunedCostOnlyInPrune ==
    [][/\ isCostBetterThanOrEquivalentTo(costs'.bestCost_, costs'.prunedCost_)
       /\ costs'.prunedCost_ # costs.prunedCost_ => PruneStoredCost
       /\ num'.numPrunings_ > num.numPrunings_ =>
             PruneStoredCost /\ costs'.prunedCost_ # costs.prunedCost_]_vars

\* C39: bestCost_ <= prunedCost_ in every state; clear() sets prunedCost_
\* back to infinity and numPrunings_ to 0; in every other step prunedCost_
\* changes only in a prune() that ran, where it becomes bestCost_, and
\* numPrunings_ increases by one in that step and in no other.
C39_PrunedCost ==
    [][/\ isCostBetterThanOrEquivalentTo(costs'.bestCost_, costs'.prunedCost_)
       /\ ClearStep => costs'.prunedCost_ = Infinity /\ num'.numPrunings_ = 0
       /\ ~ClearStep =>
             /\ costs'.prunedCost_ # costs.prunedCost_ => PruneStoredCost
             /\ num'.numPrunings_ # num.numPrunings_ =>
                   PruneStoredCost /\ costs'.prunedCost_ # costs.prunedCost_]_vars

\* A prune() ran at the cost of a first solution, and a better solution was
\* found after it.
C39_Witness ==
    /\ num.numPrunings_ >= 1
    /\ isFinite(costs.prunedCost_)
    /\ isCostBetterThan(costs.bestCost_, costs.prunedCost_)

====
